---- MODULE Spec2Model ----
(***************************************************************************)
(* deCoVar, subcommand `allele`: the lazy per-record pipeline              *)
(*     reader | pre | remove rare alleles | split by length | writer       *)
(* of src/src/allele/allele.cpp, with the field rewriting of               *)
(* src/src/allele/remove.hpp and src/src/allele/split.hpp.                 *)
(*                                                                         *)
(* A record is [chrom, pos, id, ref, alt, info, genotypes].  alt is a      *)
(* sequence of allele strings, info a sequence of [id, tag, val] and       *)
(* genotypes a sequence of [id, tag, data, delim]: a concatenated column   *)
(* keeps its flat data vector and its delimiter vector as the library's    *)
(* concatenated_sequences does (raw_data()), a vector<string> column such  *)
(* as GT keeps one string per sample in data and an empty delim.           *)
(* C++ containers are 0-based; the sequences here are 1-based, so the      *)
(* element at C++ position k is seq[k + 1].                                *)
(***************************************************************************)
EXTENDS Integers, Sequences, FiniteSets, TLC

(* ------------------------------ bounds -------------------------------- *)
\* largest number of ALT alleles of an input record
MaxAlts == 3
\* number of input records a run reads before the reader reports the end
MaxRecords == 2
\* number of sample columns of the header
NSamples == 2
\* largest --local-alleles budget of a run
MaxLocal == 2

VARIABLES
    opts,            \* program_options: rare_af_threshold, split_by_length,
                     \* local_alleles, keep_global_fields, transform_all
    hdr,             \* the header: declared numbers of the INFO and FORMAT ids
    pc,              \* where the pipeline stands
    record_no,       \* allele.cpp:187, starts at size_t(-1)
    filter_vectors,  \* _remove::cache_t
    record,          \* the record travelling through the stages
    pending,         \* records the suspended split_fn coroutine still yields
    part,            \* which copy `record` is: "whole", "split1", "split2"
    written,         \* what the writer got: <<record_no, part>> per record
    err,             \* the decovar_error that ended the run, or NoError
    rin,             \* history: the record as the reader delivered it
    sin,             \* history: the record as it entered split_fn
    lin,             \* history: the record as it entered localise_fn
    new_rec,         \* binalleles.cpp:214, the record the binner fills and yields
    allele_lengths,  \* binalleles.cpp:268, of the suspended bin_by_length_fn
    cut,             \* the loop index of bin_by_length_fn at its co_yield
    proc             \* what main did: the diagnostic it printed, its return value

bin_vars == <<new_rec, allele_lengths, cut>>

vars == <<opts, hdr, pc, record_no, filter_vectors, record, pending, part,
          written, err, rin, sin, lin,
          new_rec, allele_lengths, cut, proc>>

(* --------------------------- helpers ---------------------------------- *)
\* bio::io::var::detail::vcf_gt_formula, the index of genotype a/b, a <= b
vcf_gt_formula(a, b) == (b * (b + 1)) \div 2 + a

\* std::accumulate over a 0/1 vector
RECURSIVE accumulate(_)
accumulate(v) == IF v = <<>> THEN 0 ELSE Head(v) + accumulate(Tail(v))

RECURSIVE min_element_from(_, _, _)
min_element_from(v, k, best) ==
    IF k > Len(v) THEN best
    ELSE min_element_from(v, k + 1, IF v[k] < v[best] THEN k ELSE best)

\* the 1-based position of the last smallest element
RECURSIVE last_min_element_from(_, _, _)
last_min_element_from(v, k, best) ==
    IF k > Len(v) THEN best
    ELSE last_min_element_from(v, k + 1, IF v[k] <= v[best] THEN k ELSE best)

last_min_element(v) == last_min_element_from(v, 2, 1)

\* std::ranges::min_element: the 1-based position of the first smallest element
min_element(v) == min_element_from(v, 2, 1)

\* the inner vector of sample s (1-based) of a concatenated column
Inner(col, s) == SubSeq(col.data, col.delim[s] + 1, col.delim[s + 1])

NoError == [kind |-> "none", no |-> -1]
NoRecord == [chrom |-> "", pos |-> 0, id |-> "", ref |-> "", alt |-> <<>>,
             info |-> <<>>, genotypes |-> <<>>]

\* position of the first entry called id in an INFO or FORMAT list, 0 if none
IndexOf(entries, id) ==
    LET S == {k \in 1..Len(entries) : entries[k].id = id}
    IN  IF S = {} THEN 0 ELSE CHOOSE k \in S : \A j \in S : k <= j

\* std::vector<int>::resize: old elements kept, new ones value-initialised
Resize(v, n, fresh) == [i \in 1..n |-> IF i <= Len(v) THEN v[i] ELSE fresh]

\* the pairs (a, b) in the order of `for b in 0..n_alts: for a in 0..b`
RECURSIVE PairsFrom(_, _, _)
PairsFrom(a, b, n) ==
    IF b > n THEN <<>>
    ELSE IF a > b THEN PairsFrom(0, b + 1, n)
    ELSE <<<<a, b>>>> \o PairsFrom(a + 1, b, n)

(* ---------------- remove.hpp: the filter vectors ----------------------- *)
\* a G filter that looks at the first allele of each pair only
RECURSIVE AssignG_first(_, _, _)
AssignG_first(G, R, ps) ==
    IF ps = <<>> THEN G
    ELSE AssignG_first([G EXCEPT ![vcf_gt_formula(ps[1][1], ps[1][2]) + 1] =
                            IF R[ps[1][1] + 1] # 0 THEN 1 ELSE 0],
                       R, Tail(ps))

\* filter_vectors.G[formula(a, b)] = filter_vectors.R[a] || filter_vectors.R[b]
RECURSIVE AssignG(_, _, _)
AssignG(G, R, ps) ==
    IF ps = <<>> THEN G
    ELSE LET a == ps[1][1]
             b == ps[1][2]
         IN  AssignG([G EXCEPT ![vcf_gt_formula(a, b) + 1] =
                          IF R[a + 1] # 0 \/ R[b + 1] # 0 THEN 1 ELSE 0],
                     R, Tail(ps))

RECURSIVE AssignReverse(_, _)
AssignReverse(cache, ps) ==
    IF ps = <<>> THEN cache
    ELSE AssignReverse([cache EXCEPT ![vcf_gt_formula(ps[1][1], ps[1][2]) + 1] = ps[1]],
                       Tail(ps))

\* a cache that is cut to the size of every record
grow_reverse_cache_resized(cache, n_alts) ==
    AssignReverse(Resize(cache, vcf_gt_formula(n_alts, n_alts) + 1, <<0, 0>>),
                  PairsFrom(0, 0, n_alts))

\* formula_reverse_cache is rebuilt only when it has to grow
grow_reverse_cache(cache, n_alts) ==
    LET gt_size == vcf_gt_formula(n_alts, n_alts) + 1
    IN  IF Len(cache) < gt_size
        THEN AssignReverse(Resize(cache, gt_size, <<0, 0>>), PairsFrom(0, 0, n_alts))
        ELSE cache

\* needs filter_vectors.R of the record; gives A, G and the reverse cache
determine_filter_vector_AG(n_alts, fv) ==
    LET gt_size == vcf_gt_formula(n_alts, n_alts) + 1
    IN  [R |-> fv.R,
         A |-> SubSeq(fv.R, 2, n_alts + 1),
         G |-> AssignG(Resize(fv.G, gt_size, 0), fv.R, PairsFrom(0, 0, n_alts)),
         formula_reverse_cache |-> grow_reverse_cache(fv.formula_reverse_cache, n_alts)]

\* afs[i] < opts.rare_af_threshold marks ALT i; REF is never marked
rare_R(afs, n_alts, threshold) ==
    [i \in 1..(n_alts + 1) |->
        IF i > 1 /\ afs[i - 1] < threshold THEN 1 ELSE 0]

\* _remove::determine_filter_vector_R: [err, R].  R is cleared and resized
\* before AF is looked at, so an error leaves it all 0.
remove_determine_filter_vector_R(record_info, no, n_alts, o) ==
    LET k == IndexOf(record_info, "AF")
        cleared == [i \in 1..(n_alts + 1) |-> 0]
    IN  IF k = 0
        THEN [err |-> [kind |-> "MissingAF", no |-> no], R |-> cleared]
        ELSE IF record_info[k].tag # "vec_float"
        THEN [err |-> [kind |-> "AFTypeMismatch", no |-> no], R |-> cleared]
        ELSE IF Len(record_info[k].val) # n_alts
        THEN [err |-> [kind |-> "AFLengthMismatch", no |-> no], R |-> cleared]
        ELSE [err |-> NoError,
              R |-> rare_R(record_info[k].val, n_alts, o.rare_af_threshold)]

(* ---------------- remove.hpp: rewriting the fields --------------------- *)
\* remove_if whose predicate maps the element's position k (0-based) to
\* filter_vector[k % size]; the survivors keep their order
\* a rewriter that removes nothing
remove_nothing(vec, filter_vector) == vec

remove_by_indexes(vec, filter_vector) ==
    LET pred(k) == filter_vector[((k - 1) % Len(filter_vector)) + 1] # 0
        kept == SelectSeq([k \in 1..Len(vec) |-> k], LAMBDA k : ~pred(k))
    IN  [i \in 1..Len(kept) |-> vec[kept[i]]]

IsVector(tag) == tag \in {"vec_float", "vec_int", "vec_string"}

\* the filter vector a declared number selects, <<>> standing for `default:`
selected_filter_vector(number, fv) ==
    CASE number = "R" -> fv.R
      [] number = "A" -> fv.A
      [] number = "G" -> fv.G
      [] OTHER -> <<>>

\* the visitor of update_infos on one INFO entry, f the selected filter
\* vector: [err, entry]
update_info_entry(e, number, no, f) ==
    IF number \notin {"R", "A"} THEN [err |-> NoError, entry |-> e]
    ELSE IF ~IsVector(e.tag)
    THEN [err |-> [kind |-> "ExpectedVector", no |-> no], entry |-> e]
    ELSE IF Len(e.val) # Len(f)
    \* the message's arguments are (filter size, id, vec size, record_no):
    \* "[Record no: {}]" is filled with the filter's size
    THEN [err |-> [kind |-> "FieldLengthMismatch", no |-> Len(f)], entry |-> e]
    ELSE [err |-> NoError, entry |-> [e EXCEPT !.val = remove_by_indexes(e.val, f)]]

\* update_infos: entries are rewritten in place, in order, up to the first
\* throw; r is the visitor's result on entry k
RECURSIVE update_infos_from(_, _, _, _, _)
update_infos_step(info, k, h, no, fv, r) ==
    IF r.err # NoError THEN [err |-> r.err, info |-> info]
    ELSE update_infos_from([info EXCEPT ![k] = r.entry], k + 1, h, no, fv)

update_infos_from(info, k, h, no, fv) ==
    IF k > Len(info) THEN [err |-> NoError, info |-> info]
    ELSE update_infos_step(info, k, h, no, fv,
             update_info_entry(info[k], h.infos[info[k].id], no,
                               selected_filter_vector(h.infos[info[k].id], fv)))

update_infos(record_info, h, no, fv) == update_infos_from(record_info, 1, h, no, fv)

IsConcat(tag) == tag \in {"concat_int", "concat_float"}

\* the smallest value of every sample's inner vector
sample_minima(col) ==
    [s \in 1..(Len(col.delim) - 1) |->
        LET sample_PL == Inner(col, s) IN sample_PL[min_element(sample_PL)]]

\* `if (min > 0) for (PL_value : sample_PL) PL_value -= min;` for every row
subtract_minima(col, min) ==
    [col EXCEPT !.data =
        [k \in 1..Len(col.data) |->
            LET rows == {s \in 1..(Len(col.delim) - 1) :
                            col.delim[s] < k /\ k <= col.delim[s + 1] /\ min[s] > 0}
            IN  IF rows = {} THEN col.data[k]
                ELSE col.data[k] - min[CHOOSE s \in rows : TRUE]]]

\* PL values are renormalised, so the smallest PL value is 0 (remove.hpp:243)
renormalise_PL(col) ==
    IF col.id = "PL" THEN subtract_minima(col, sample_minima(col)) ELSE col

\* a loop over the delimiters that ends one early and leaves the last one
compact_column_short(e, f, n_samples, n_alleles_after) ==
    [e EXCEPT !.data = remove_by_indexes(e.data, f),
              !.delim = [i \in 1..(n_samples + 1) |->
                            IF i <= n_samples THEN (i - 1) * n_alleles_after
                            ELSE Len(remove_by_indexes(e.data, f)) - 1]]

\* the data of a column without the filtered positions, its delimiters
\* rewritten to i * n_alleles_after
compact_column(e, f, n_samples, n_alleles_after) ==
    [e EXCEPT !.data = remove_by_indexes(e.data, f),
              !.delim = [i \in 1..(n_samples + 1) |-> (i - 1) * n_alleles_after]]

\* the visitor of update_genotypes on one FORMAT column, f the selected
\* filter vector: [err, entry]
update_genotype_entry(e, number, no, f) ==
    IF number \notin {"R", "A", "G"} THEN [err |-> NoError, entry |-> e]
    ELSE IF ~IsConcat(e.tag)
    THEN [err |-> [kind |-> "ExpectedVector", no |-> no], entry |-> e]
    ELSE IF Len(e.data) # (Len(e.delim) - 1) * Len(f)
    THEN [err |-> [kind |-> "DiploidOrCardinalityMismatch", no |-> no], entry |-> e]
    ELSE [err |-> NoError,
          entry |-> renormalise_PL(
                        compact_column(e, f, Len(e.delim) - 1, Len(f) - accumulate(f)))]

\* update_genotypes: columns are rewritten in place, in order, up to the
\* first throw; r is the visitor's result on column k
RECURSIVE update_genotypes_from(_, _, _, _, _)
update_genotypes_step(gts, k, h, no, fv, r) ==
    IF r.err # NoError THEN [err |-> r.err, genotypes |-> gts]
    ELSE update_genotypes_from([gts EXCEPT ![k] = r.entry], k + 1, h, no, fv)

update_genotypes_from(gts, k, h, no, fv) ==
    IF k > Len(gts) THEN [err |-> NoError, genotypes |-> gts]
    ELSE update_genotypes_step(gts, k, h, no, fv,
             update_genotype_entry(gts[k], h.formats[gts[k].id], no,
                                   selected_filter_vector(h.formats[gts[k].id], fv)))

update_genotypes(record_genotypes, h, no, fv) ==
    update_genotypes_from(record_genotypes, 1, h, no, fv)

\* fmt::format_to(..., "{}/{}", a, b)
format_GT(pair) == ToString(pair[1]) \o "/" \o ToString(pair[2])

\* the visitor of fix_GT: sample s gets the pair the reverse cache holds for
\* the position of its smallest PL
fixed_GT(all_GT, PL, reverse_cache) ==
    [s \in 1..Len(all_GT) |->
        IF s <= Len(PL.delim) - 1
        THEN format_GT(reverse_cache[min_element(Inner(PL, s))])
        ELSE all_GT[s]]

\* fix_GT with gt and pl the positions of GT and PL in the record (0: absent);
\* nothing happens without GT or without PL
fix_GT_at(record_genotypes, no, fv, gt, pl) ==
    IF gt = 0 \/ pl = 0 THEN [err |-> NoError, genotypes |-> record_genotypes]
    ELSE IF Len(record_genotypes[gt].data) = 0
    THEN [err |-> NoError, genotypes |-> record_genotypes]
    ELSE IF ~IsConcat(record_genotypes[pl].tag)
    THEN [err |-> [kind |-> "ExpectedVector", no |-> no],
          genotypes |-> record_genotypes]
    ELSE [err |-> NoError,
          genotypes |-> [record_genotypes EXCEPT ![gt].data =
                            fixed_GT(@, record_genotypes[pl],
                                     fv.formula_reverse_cache)]]

fix_GT(record_genotypes, no, fv) ==
    fix_GT_at(record_genotypes, no, fv,
              IndexOf(record_genotypes, "GT"), IndexOf(record_genotypes, "PL"))

\* alt, INFO, FORMAT and GT of a record rewritten with the filter vectors fv,
\* the four steps remove_rare_alleles (remove.hpp:336-346) and remove_alleles
\* (split.hpp:95-105) share: [err, record, fv].  Each step's result is the
\* last parameter of the next.
rewrite_done(rec, fv, x) ==
    [err |-> x.err, record |-> [rec EXCEPT !.genotypes = x.genotypes], fv |-> fv]

rewrite_GT(rec, no, fv, g) ==
    IF g.err # NoError
    THEN [err |-> g.err, record |-> [rec EXCEPT !.genotypes = g.genotypes], fv |-> fv]
    ELSE rewrite_done(rec, fv, fix_GT(g.genotypes, no, fv))

rewrite_genotypes(rec, no, h, fv, i) ==
    IF i.err # NoError
    THEN [err |-> i.err, record |-> [rec EXCEPT !.info = i.info], fv |-> fv]
    ELSE rewrite_GT([rec EXCEPT !.info = i.info], no, fv,
                    update_genotypes(rec.genotypes, h, no, fv))

rewrite_record(rec, no, h, fv) ==
    rewrite_genotypes([rec EXCEPT !.alt = remove_by_indexes(rec.alt, fv.A)],
                      no, h, fv, update_infos(rec.info, h, no, fv))

\* a removal that never skips a record
remove_rare_never_skip(rec, no, h, fv) ==
    IF \E i \in 1..Len(fv.A) : fv.A[i] # 0
    THEN [skip |-> FALSE] @@ rewrite_record(rec, no, h, fv)
    ELSE [err |-> NoError, skip |-> FALSE, record |-> rec, fv |-> fv]

\* remove_rare_alleles once the filter vectors fv are there: the record is
\* skipped if every ALT is marked and rewritten if some ALT is
remove_rare_with(rec, no, h, fv) ==
    IF \A i \in 1..Len(fv.A) : fv.A[i] # 0
    THEN [err |-> NoError, skip |-> TRUE, record |-> rec, fv |-> fv]
    ELSE IF \E i \in 1..Len(fv.A) : fv.A[i] # 0
    THEN [skip |-> FALSE] @@ rewrite_record(rec, no, h, fv)
    ELSE [err |-> NoError, skip |-> FALSE, record |-> rec, fv |-> fv]

\* r is the result of determine_filter_vector_R
remove_rare_after_R(rec, no, h, fv, r) ==
    IF r.err # NoError
    THEN [err |-> r.err, skip |-> FALSE, record |-> rec, fv |-> [fv EXCEPT !.R = r.R]]
    ELSE remove_rare_with(rec, no, h,
             determine_filter_vector_AG(Len(rec.alt), [fv EXCEPT !.R = r.R]))

\* remove_rare_alleles: [err, skip, record, fv]; skip is its return value
remove_rare_alleles(rec, no, h, o, fv) ==
    remove_rare_after_R(rec, no, h, fv,
        remove_determine_filter_vector_R(rec.info, no, Len(rec.alt), o))

(* ---------------- split.hpp -------------------------------------------- *)
\* a filter that takes the alleles of length split_by_length for long
split_filter_strict(rec, o, which) ==
    [i \in 1..(Len(rec.alt) + 1) |->
        IF i = 1 THEN 0
        ELSE IF (Len(rec.alt[i - 1]) < o.split_by_length) = (which = "leq")
             THEN 1 ELSE 0]

\* _split::determine_filter_vector_R: which = "gt" marks the alleles longer
\* than split_by_length, which = "leq" the others
split_determine_filter_vector_R(rec, o, which) ==
    [i \in 1..(Len(rec.alt) + 1) |->
        IF i = 1 THEN 0
        ELSE IF (Len(rec.alt[i - 1]) <= o.split_by_length) = (which = "leq")
             THEN 1 ELSE 0]

\* a predicate that is content with two ALT alleles
needs_splitting_any(rec, o) == Len(rec.alt) > 1

needs_splitting(rec, o) ==
    /\ Len(rec.alt) > 1
    /\ \E i \in 1..Len(rec.alt) : Len(rec.alt[i]) <= o.split_by_length
    /\ \E i \in 1..Len(rec.alt) : Len(rec.alt[i]) > o.split_by_length

\* _split::remove_alleles: [err, record, fv]
remove_alleles(rec, no, which, h, o, fv) ==
    rewrite_record(rec, no, h,
        determine_filter_vector_AG(
            Len(rec.alt),
            [fv EXCEPT !.R = split_determine_filter_vector_R(rec, o, which)]))

(* ---------------- localise.hpp ------------------------------------------ *)
\* span[k] of the row of sample s (1-based) of a concatenated column, k
\* 0-based: the span starts at delim[s] of the flat data, and a read past the
\* flat data gives whatever the memory holds
span_at(col, s, k, garbage) ==
    IF col.delim[s] + k + 1 \in 1..Len(col.data)
    THEN col.data[col.delim[s] + k + 1]
    ELSE garbage

\* some read of the values 0..width-1 of some row lies outside the flat data
reads_outside(col, width) ==
    \E s \in 1..(Len(col.delim) - 1) : col.delim[s] + width > Len(col.data)

\* the largest of the first `width` values of the row of sample s
RECURSIVE row_top(_, _, _)
row_top(col, s, width) ==
    IF width = 1 THEN span_at(col, s, 0, 0)
    ELSE LET rest == row_top(col, s, width - 1)
             last == span_at(col, s, width - 1, 0)
         IN  IF last > rest THEN last ELSE rest

\* PL_to_prob is 10^(-PL/10); the scores of a sample are only compared with
\* each other, so each is multiplied by 10^(top/10), top the sample's largest
\* PL: an integer for the multiples of 10 the records hold
PL_to_prob(PL_val, top) == 10 ^ ((top - PL_val) \div 10)

\* an accumulation that counts a homozygous cell once
RECURSIVE probs_buf_once(_, _, _, _, _)
probs_buf_once(PLs, s, top, x, ps) ==
    IF ps = <<>> THEN 0
    ELSE (IF ps[1][1] = x \/ ps[1][2] = x THEN 1 ELSE 0)
             * PL_to_prob(span_at(PLs, s, vcf_gt_formula(ps[1][1], ps[1][2]), 0), top)
         + probs_buf_once(PLs, s, top, x, Tail(ps))

\* probs_buf[x].first after the loops over b and a (localise.hpp:128-138)
RECURSIVE probs_buf(_, _, _, _, _)
probs_buf(PLs, s, top, x, ps) ==
    IF ps = <<>> THEN 0
    ELSE ((IF ps[1][1] = x THEN 1 ELSE 0) + (IF ps[1][2] = x THEN 1 ELSE 0))
             * PL_to_prob(span_at(PLs, s, vcf_gt_formula(ps[1][1], ps[1][2]), 0), top)
         + probs_buf(PLs, s, top, x, Tail(ps))

\* the elements of a set of integers in ascending order
RECURSIVE Ascending(_)
Ascending(S) ==
    IF S = {} THEN <<>>
    ELSE LET m == CHOOSE x \in S : \A y \in S : x <= y
         IN  <<m>> \o Ascending(S \ {m})

\* the orders in which std::ranges::sort, descending by probability, can leave
\* the ALT entries of probs_buf: the sort is not stable, equal elements end
\* in any order (localise.hpp:141-144)
sorted_by_prob(n_alts, P) ==
    {p \in Permutations(1..n_alts) :
        \A i \in 1..n_alts : \A j \in i..n_alts : P[p[i]] >= P[p[j]]}

\* the second sort, by index (localise.hpp:147-150)
sort_by_index(indexes) == SortSeq(indexes, LAMBDA a, b : a < b)

\* a slice that starts at the REF position
laa_rows_from_ref(PLs, s, n_alts, L, P) ==
    {SubSeq(sort_by_index(<<0>> \o SubSeq(p, 1, L)), 1, L) :
        p \in sorted_by_prob(n_alts, P)}

\* the rows determine_laa can give sample s: the REF entry and the first L ALT
\* entries are sorted by index, and the slice [1, L + 1) of the indexes is
\* pushed to laa
laa_rows(PLs, s, n_alts, L, P) ==
    {SubSeq(sort_by_index(<<0>> \o SubSeq(p, 1, L)), 2, L + 1) :
        p \in sorted_by_prob(n_alts, P)}

sample_probs(PLs, s, n_alts, top) ==
    [x \in 1..n_alts |-> probs_buf(PLs, s, top, x, PairsFrom(0, 0, n_alts))]

sample_laa_rows(PLs, s, n_alts, L) ==
    laa_rows(PLs, s, n_alts, L,
             sample_probs(PLs, s, n_alts,
                          row_top(PLs, s, vcf_gt_formula(n_alts, n_alts) + 1)))

\* the columns whose row of sample s is one of rows[s]
laa_columns(rows) ==
    {laa \in [DOMAIN rows -> UNION {rows[s] : s \in DOMAIN rows}] :
        \A s \in DOMAIN rows : laa[s] \in rows[s]}

\* the values cache.laa can have after determine_laa: one row per row of PL
determine_laa(PLs, n_alts, L) ==
    laa_columns([s \in 1..(Len(PLs.delim) - 1) |-> sample_laa_rows(PLs, s, n_alts, L)])

\* a concatenated column of rows of one width
RECURSIVE Flatten(_)
Flatten(rows) == IF rows = <<>> THEN <<>> ELSE Head(rows) \o Flatten(Tail(rows))

ConcatOf(id, rows, width) ==
    [id |-> id, tag |-> "concat_int", data |-> Flatten(rows),
     delim |-> [i \in 1..(Len(rows) + 1) |-> (i - 1) * width]]

\* LAD: the reference is always appended, then the local alleles
\* (localise.hpp:214-220); zip ends with the shorter of AD and laa
field_LAD(field_AD, laa, L, garbage) ==
    LET n == IF Len(field_AD.delim) - 1 < Len(laa) THEN Len(field_AD.delim) - 1
             ELSE Len(laa)
    IN  ConcatOf("LAD",
                 [s \in 1..n |->
                     [j \in 1..(L + 1) |->
                         IF j = 1 THEN span_at(field_AD, s, 0, garbage)
                         ELSE span_at(field_AD, s, laa[s][j - 1], garbage)]],
                 L + 1)

\* a mapping without the special case of the reference
global_allele_no_ref(sample_LAA, a) == sample_LAA[IF a = 0 THEN 1 ELSE a]

\* the global allele local allele a stands for (localise.hpp:258-262)
global_allele(sample_LAA, a) == IF a = 0 THEN 0 ELSE sample_LAA[a]

\* LPL (localise.hpp:247-278)
field_LPL(field_PL, laa, n_samples, L, garbage) ==
    LET pairs == PairsFrom(0, 0, L)
    IN  ConcatOf("LPL",
                 [s \in 1..n_samples |->
                     [k \in 1..(vcf_gt_formula(L, L) + 1) |->
                         span_at(field_PL, s,
                                 vcf_gt_formula(global_allele(laa[s], pairs[k][1]),
                                                global_allele(laa[s], pairs[k][2])),
                                 garbage)]],
                 vcf_gt_formula(L, L) + 1)

LocalIds == {"LAA", "LAD", "LGT", "LPL"}

\* the error localise_alleles throws before it changes the record, or NoError;
\* ad and pl are the positions of AD and PL (0: absent)
localise_error(rec, no, h, ad, pl) ==
    IF \E k \in 1..Len(rec.genotypes) : rec.genotypes[k].id \in LocalIds
    THEN [kind |-> "FieldAlreadyPresent", no |-> no]
    ELSE IF pl = 0 THEN [kind |-> "MissingPL", no |-> no]
    ELSE IF rec.genotypes[pl].tag # "concat_int"
    THEN [kind |-> "PLTypeMismatch", no |-> no]
    ELSE IF Len(rec.genotypes[pl].data) #
                h.n_samples * (vcf_gt_formula(Len(rec.alt), Len(rec.alt)) + 1)
    THEN [kind |-> "DiploidOrCardinalityMismatch", no |-> no]
    ELSE IF ad # 0 /\ rec.genotypes[ad].tag # "concat_int"
    THEN [kind |-> "ADTypeMismatch", no |-> no]
    ELSE NoError

\* an erase_if that takes GT as well
erase_globals_and_GT(genotypes) ==
    SelectSeq(genotypes, LAMBDA e : e.id \notin {"AD", "GT", "PL"})

\* std::erase_if of AD and PL
erase_globals(genotypes) ==
    SelectSeq(genotypes, LAMBDA e : e.id \notin {"AD", "PL"})

\* the fields a projection adds, in the order LAD, LPL, LAA, and the globals
\* it erases
add_local_fields(rec, o, ad, lad, lpl, laa_field) ==
    LET added == rec.genotypes \o (IF ad # 0 THEN <<lad>> ELSE <<>>) \o <<lpl, laa_field>>
    IN  [rec EXCEPT !.genotypes = IF o.keep_global_fields THEN added
                                  ELSE erase_globals(added)]

\* localise_alleles with laa what determine_laa left in the cache:
\* [err, record, ub].  ub: the run had undefined behaviour, a read past the
\* flat data of AD or PL or, when the globals are removed, the use of
\* field_AD or field_PL after emplace_back may have moved record.genotypes
\* (localise.hpp:223-226, 280-283)
localise_with(rec, no, h, o, laa, garbage, ad, pl, e) ==
    IF e # NoError THEN [err |-> e, record |-> rec, ub |-> FALSE]
    ELSE [err |-> NoError,
          record |-> add_local_fields(
              rec, o, ad,
              IF ad # 0
              THEN field_LAD(rec.genotypes[ad], laa, o.local_alleles, garbage)
              ELSE <<>>,
              field_LPL(rec.genotypes[pl], laa, h.n_samples, o.local_alleles, garbage),
              ConcatOf("LAA", laa, o.local_alleles)),
          ub |-> \/ ~o.keep_global_fields
                 \/ reads_outside(rec.genotypes[pl],
                                  vcf_gt_formula(Len(rec.alt), Len(rec.alt)) + 1)
                 \/ ad # 0 /\ reads_outside(rec.genotypes[ad], Len(rec.alt) + 1)]

localise_at(rec, no, h, o, laa, garbage, ad, pl) ==
    localise_with(rec, no, h, o, laa, garbage, ad, pl,
                  localise_error(rec, no, h, ad, pl))

localise_alleles(rec, no, h, o, laa, garbage) ==
    localise_at(rec, no, h, o, laa, garbage,
                IndexOf(rec.genotypes, "AD"), IndexOf(rec.genotypes, "PL"))

\* what cache.laa can be when localise_alleles of rec has run determine_laa;
\* <<>> if it does not get there
laa_of(rec, h, o) ==
    IF localise_error(rec, 0, h, 0, IndexOf(rec.genotypes, "PL")) = NoError
    THEN determine_laa(rec.genotypes[IndexOf(rec.genotypes, "PL")],
                       Len(rec.alt), o.local_alleles)
    ELSE {<<>>}

\* pseudo_localise_alleles: LAA lists all ALT alleles, LAD and LPL hold the
\* values of AD and PL
pseudo_with(rec, no, h, o, ad, pl, e) ==
    IF e # NoError THEN [err |-> e, record |-> rec, ub |-> FALSE]
    ELSE [err |-> NoError,
          record |-> add_local_fields(
              rec, o, ad,
              IF ad # 0 THEN [rec.genotypes[ad] EXCEPT !.id = "LAD"] ELSE <<>>,
              [rec.genotypes[pl] EXCEPT !.id = "LPL"],
              ConcatOf("LAA",
                       [s \in 1..h.n_samples |-> [i \in 1..Len(rec.alt) |-> i]],
                       Len(rec.alt))),
          ub |-> FALSE]

pseudo_at(rec, no, h, o, ad, pl) ==
    pseudo_with(rec, no, h, o, ad, pl, localise_error(rec, no, h, ad, pl))

pseudo_localise_alleles(rec, no, h, o) ==
    pseudo_at(rec, no, h, o,
              IndexOf(rec.genotypes, "AD"), IndexOf(rec.genotypes, "PL"))

(* ---------------- the input records ------------------------------------ *)
\* AF values and the threshold are floats in the program; only their order
\* matters, so they are integers here.  RareAF < the threshold, the AF of a
\* common allele equals it (the comparison is strict).
Threshold == 3
RareAF == Threshold - 2
\* --split-by-length of the runs that split; ShortAllele has alleles of
\* length 1 and of length Cutoff, LongAllele only longer ones
Cutoff == 2
ShortAllele == <<"T", "GC", "C", "G", "TC">>
LongAllele == <<"TAAC", "GCAT", "CAGG", "GTTA", "TCAAA">>
\* number of PL seeds
NSeeds == 4

\* the PL row of 0-based sample s: many values (seed 1), ties with
\* minimum 0 (seed 2), ties with a positive minimum (seed 3), negative
\* values such as the library's missing-value sentinel (seed 4)
PLValue(seed, s, k) ==
    CASE seed = 1 -> 10 * ((2 * k + 5 + 2 * s) % 9)
      [] seed = 2 -> 10 * ((k + s + 1) % 3)
      [] seed = 3 -> 10 * (1 + ((k + s) % 2))
      [] OTHER -> 10 * ((k + s) % 4) - 10

Width(number, n_alts) ==
    CASE number = "A" -> n_alts
      [] number = "R" -> n_alts + 1
      [] number = "G" -> vcf_gt_formula(n_alts, n_alts) + 1
      [] OTHER -> 1

ValAD(s, k) == 10 * (s + 1) + k
ValAQ(s, k) == 50 + 10 * (s + 1) + k
ValGX(s, k) == 100 * (s + 1) + k

\* the value of column id at 0-based sample s, position k
Value(id, seed, s, k) ==
    CASE id = "AD" -> ValAD(s, k)
      [] id = "AQ" -> ValAQ(s, k)
      [] id = "PL" -> PLValue(seed, s, k)
      [] OTHER -> ValGX(s, k)

\* a well-formed concatenated column
Column(id, n_samples, width, seed) ==
    [id |-> id, tag |-> "concat_int",
     data |-> [j \in 1..(n_samples * width) |->
                  Value(id, seed, (j - 1) \div width, (j - 1) % width)],
     delim |-> [i \in 1..(n_samples + 1) |-> (i - 1) * width]]

InputGT(n_samples) ==
    [id |-> "GT", tag |-> "vec_string",
     data |-> [s \in 1..n_samples |-> IF s % 2 = 1 THEN "0|1" ELSE "./."],
     delim |-> <<>>]

\* a well-formed record: n ALT alleles, those in `rare` with AF below the
\* threshold, those in `long` longer than the cutoff
BaseRecord(n, rare, long, seed, n_samples) ==
    [chrom |-> "chr1", pos |-> 100 + seed,
     id |-> IF seed % 2 = 1 THEN "." ELSE "rs7",
     ref |-> "A",
     alt |-> [i \in 1..n |-> IF i \in long THEN LongAllele[i] ELSE ShortAllele[i]],
     info |-> << [id |-> "DP", tag |-> "int", val |-> 30],
                 [id |-> "AF", tag |-> "vec_float",
                  val |-> [i \in 1..n |-> IF i \in rare THEN RareAF ELSE Threshold]],
                 [id |-> "RO", tag |-> "vec_int",
                  val |-> [j \in 1..(n + 1) |-> 100 + j - 1]] >>,
     genotypes |-> << InputGT(n_samples),
                      Column("AD", n_samples, Width("R", n), seed),
                      Column("AQ", n_samples, Width("A", n), seed),
                      Column("PL", n_samples, Width("G", n), seed),
                      Column("GX", n_samples, Width("G", n), seed) >>]

Defects == {"AF_missing", "AF_type", "AF_len", "INFO_len", "FMT_len",
            "FMT_ragged", "no_AD", "no_PL", "PL_type", "AD_type", "has_LAA"}

DropId(entries, id) == SelectSeq(entries, LAMBDA e : e.id # id)

\* the first two samples' rows get one value less and one more: the flat
\* length stays n_samples * width
Ragged(col) ==
    [col EXCEPT !.delim = [i \in 1..Len(col.delim) |->
                              IF i = 2 THEN col.delim[i] - 1 ELSE col.delim[i]]]

\* the last sample's row lacks its last value
Short(col) ==
    [col EXCEPT !.data = SubSeq(col.data, 1, Len(col.data) - 1),
                !.delim = [i \in 1..Len(col.delim) |->
                              IF i = Len(col.delim) THEN col.delim[i] - 1
                              ELSE col.delim[i]]]

Defective(r, d) ==
    LET af == IndexOf(r.info, "AF")
        ro == IndexOf(r.info, "RO")
        ad == IndexOf(r.genotypes, "AD")
        pl == IndexOf(r.genotypes, "PL")
    IN  CASE d = "AF_missing" -> [r EXCEPT !.info = DropId(r.info, "AF")]
          [] d = "AF_type" -> [r EXCEPT !.info[af].tag = "vec_int"]
          [] d = "AF_len" -> [r EXCEPT !.info[af].val = Append(@, Threshold)]
          [] d = "INFO_len" -> [r EXCEPT !.info[ro].val = Append(@, 99)]
          [] d = "FMT_len" -> [r EXCEPT !.genotypes[ad] = Short(@)]
          [] d = "FMT_ragged" -> [r EXCEPT !.genotypes[pl] = Ragged(@)]
          [] d = "no_AD" -> [r EXCEPT !.genotypes = DropId(r.genotypes, "AD")]
          [] d = "PL_type" -> [r EXCEPT !.genotypes[pl].tag = "vec_string"]
          [] d = "AD_type" -> [r EXCEPT !.genotypes[ad].tag = "vec_string"]
          [] d = "has_LAA" ->
                 [r EXCEPT !.genotypes =
                     Append(@, [id |-> "LAA", tag |-> "concat_int",
                                data |-> [k \in 1..NSamples |-> 1],
                                delim |-> [k \in 1..(NSamples + 1) |-> k - 1]])]
          [] OTHER -> [r EXCEPT !.genotypes = DropId(r.genotypes, "PL")]

Odd(n) == {i \in 1..n : i % 2 = 1}

\* which alleles are rare and which are long
Patterns ==
    UNION {    {[n |-> n, rare |-> S, long |-> {}] : S \in SUBSET (1..n)}
          \cup {[n |-> n, rare |-> {}, long |-> S] : S \in SUBSET (1..n)}
          \cup {[n |-> n, rare |-> S, long |-> Odd(n)] : S \in SUBSET (1..n)}
          : n \in 0..MaxAlts}

\* the base of the defective records: the first allele rare, the last long
DefectBase(n) ==
    BaseRecord(n, {1} \cap (1..n), {n} \ {0, 1}, 1, NSamples)

\* every pattern with the PL rows of seed 1, the patterns with long alleles at
\* the odd positions with every seed, and the defective records
Inputs ==
         {BaseRecord(p.n, p.rare, p.long, 1, NSamples) : p \in Patterns}
    \cup {BaseRecord(p.n, p.rare, p.long, seed, NSamples) :
              p \in {q \in Patterns : q.long = Odd(q.n)}, seed \in 1..NSeeds}
    \cup {Defective(DefectBase(n), d) : n \in 0..MaxAlts, d \in Defects}

\* the records that follow the first one of an input: fewer, so that runs over
\* several records stay small, with every allele count, a record that is
\* dropped, one that loses an allele, one that is split and a defective one
Followers ==
         UNION {{BaseRecord(n, rare, {1} \cap (1..n), 1 + (n % 2), NSamples) :
                    rare \in {{}, {n} \ {0}}}
                : n \in 0..MaxAlts}
    \cup {BaseRecord(2, {1, 2}, {}, 1, NSamples),
          Defective(DefectBase(MaxAlts), "FMT_len")}

(* ---------------- allele.cpp: the pipeline ------------------------------ *)
\* the header of a run; the declared number of AF is the input file's choice.
\* With local alleles the reserved formats LAA, LAD and LPL are added
\* (allele.cpp:162-176).
Header(af_number, local_alleles) ==
    [n_samples |-> NSamples,
     infos |-> [DP |-> "1", AF |-> af_number, RO |-> "R"],
     formats |-> IF local_alleles > 0
                 THEN [GT |-> "1", AD |-> "R", AQ |-> "A", PL |-> "G", GX |-> "G",
                       LAA |-> ".", LAD |-> ".", LPL |-> "."]
                 ELSE [GT |-> "1", AD |-> "R", AQ |-> "A", PL |-> "G", GX |-> "G"]]

\* the local-allele options of a run: off, or on with a budget up to MaxLocal
LocalOptions ==
         {[local_alleles |-> 0, keep_global_fields |-> FALSE, transform_all |-> FALSE]}
    \cup {[local_alleles |-> l, keep_global_fields |-> k, transform_all |-> a] :
              l \in 1..MaxLocal, k \in BOOLEAN, a \in BOOLEAN}

Options ==
    {[rare_af_threshold |-> t, split_by_length |-> c] @@ l :
        t \in {0, Threshold}, c \in {0, Cutoff}, l \in LocalOptions}

\* what a read past the end of a buffer may find
Garbage == {0, 77}

(* ---------------- main.cpp ---------------------------------------------- *)
\* main has not returned and has printed nothing
Running == [returned |-> FALSE, rc |-> 0, stderr |-> <<>>]

\* the subcommand came to its end: main returns 0 (main.cpp:57)
returned_0(p) == [p EXCEPT !.returned = TRUE, !.rc = 0]

\* a handler that prints the line and lets main go on
catch_and_go_on(p, e) ==
    [p EXCEPT !.stderr = Append(@, [prefix |-> "[deCoVar error]", what |-> e])]

\* the handler of decovar_error of the release build: one line on stderr,
\* return -1 (main.cpp:51-55)
catch_decovar_error(p, e) ==
    [p EXCEPT !.returned = TRUE, !.rc = -1,
              !.stderr = Append(@, [prefix |-> "[deCoVar error]", what |-> e])]

\* main after a stage that ended with e: the exception, if any, leaves the
\* pipeline and is caught
after_stage(p, e) == IF e # NoError THEN catch_decovar_error(p, e) ELSE p

Init ==
    /\ opts \in Options
    /\ hdr \in {Header("A", opts.local_alleles), Header(".", opts.local_alleles)}
    /\ hdr.infos.AF = "A" \/ (opts.rare_af_threshold # 0 /\ opts.local_alleles = 0)
    /\ pc = "pull"
    /\ record_no = -1
    /\ filter_vectors = [A |-> <<>>, R |-> <<>>, G |-> <<>>,
                         formula_reverse_cache |-> <<>>]
    /\ record = NoRecord
    /\ pending = <<>>
    /\ part = "none"
    /\ written = <<>>
    /\ err = NoError
    /\ rin = NoRecord
    /\ sin = NoRecord
    /\ lin = NoRecord
    /\ new_rec = NoRecord
    /\ allele_lengths = <<>>
    /\ cut = 0
    /\ proc = Running

\* the reader delivers FORMAT fields that the header of the file declares
Declared(r, h) ==
    \A k \in 1..Len(r.genotypes) : r.genotypes[k].id \in DOMAIN h.formats

\* the consumer loop asks for a record, every generator is exhausted, so the
\* reader delivers the next record and pre_fn counts it
Pull ==
    /\ pc = "pull"
    /\ record_no + 1 < MaxRecords
    /\ \E r \in (IF record_no = -1 THEN Inputs ELSE Followers) :
           /\ Declared(r, hdr)
           /\ record' = r
           /\ rin' = r
    /\ record_no' = record_no + 1
    /\ part' = "whole"
    /\ pc' = "remove"
    /\ UNCHANGED <<opts, hdr, filter_vectors, pending, written, err, sin, lin, proc>>
    /\ UNCHANGED bin_vars

\* the reader is at the end of its input: the loop and the program end
EndOfInput ==
    /\ pc = "pull"
    /\ pc' = "done"
    /\ proc' = returned_0(proc)
    /\ UNCHANGED bin_vars
    /\ UNCHANGED <<opts, hdr, record_no, filter_vectors, record, pending, part,
                   written, err, rin, sin, lin>>

\* a stage that looks at the number of ALT alleles only
remove_rare_alleles_always(rec, no, h, o, fv) ==
    IF Len(rec.alt) > 1
    THEN remove_rare_alleles(rec, no, h, o, fv)
    ELSE [err |-> NoError, skip |-> FALSE, record |-> rec, fv |-> fv]

\* remove_rare_alleles_fn up to its co_yield or co_return: [err, skip, record, fv]
remove_rare_alleles_fn(rec, no, h, o, fv) ==
    IF Len(rec.alt) > 1 /\ o.rare_af_threshold # 0
    THEN remove_rare_alleles(rec, no, h, o, fv)
    ELSE [err |-> NoError, skip |-> FALSE, record |-> rec, fv |-> fv]

RemoveRare ==
    /\ pc = "remove"
    /\ \E r \in {remove_rare_alleles_fn(record, record_no, hdr, opts, filter_vectors)} :
           /\ filter_vectors' = r.fv
           /\ err' = r.err
           /\ pc' = IF r.err # NoError THEN "error"
                    ELSE IF r.skip THEN "pull" ELSE "split"
           /\ record' = IF r.err = NoError /\ r.skip THEN NoRecord ELSE r.record
           /\ rin' = IF r.err = NoError /\ r.skip THEN NoRecord ELSE rin
           /\ sin' = IF r.err = NoError /\ ~r.skip THEN r.record ELSE sin
           /\ part' = IF r.err = NoError /\ r.skip THEN "none" ELSE part
           /\ proc' = after_stage(proc, r.err)
    /\ UNCHANGED <<opts, hdr, record_no, pending, written, lin>>
    /\ UNCHANGED bin_vars

\* the ids of the two copies (allele.cpp:226-230)
split_id(id, suffix) == IF id # "." THEN id \o suffix ELSE id

\* a splitter that yields the long copy first
split_yield_long_first(short, long) ==
    IF long.err # NoError
    THEN [err |-> long.err, out |-> <<>>, fv |-> long.fv]
    ELSE [err |-> NoError, out |-> <<long.record, short.record>>, fv |-> long.fv]

\* split_fn after both remove_alleles calls: [err, out, fv]
split_yield(short, long) ==
    IF long.err # NoError
    THEN [err |-> long.err, out |-> <<>>, fv |-> long.fv]
    ELSE [err |-> NoError, out |-> <<short.record, long.record>>, fv |-> long.fv]

\* short alleles are in record0 (the copy loses the longer ones), then the
\* long alleles in record
split_long(rec, no, h, o, short) ==
    IF short.err # NoError
    THEN [err |-> short.err, out |-> <<>>, fv |-> short.fv]
    ELSE split_yield(short,
             remove_alleles([rec EXCEPT !.id = split_id(rec.id, "_split2")],
                            no, "leq", h, o, short.fv))

\* split_fn up to its first co_yield: [err, out, fv]; out holds the records it
\* yields, in order
split_fn(rec, no, h, o, fv) ==
    IF o.split_by_length > 0 /\ needs_splitting(rec, o)
    THEN split_long(rec, no, h, o,
             remove_alleles([rec EXCEPT !.id = split_id(rec.id, "_split1")],
                            no, "gt", h, o, fv))
    ELSE [err |-> NoError, out |-> <<rec>>, fv |-> fv]

Split ==
    /\ pc = "split"
    /\ \E r \in {split_fn(record, record_no, hdr, opts, filter_vectors)} :
           /\ filter_vectors' = r.fv
           /\ err' = r.err
           /\ pc' = IF r.err # NoError THEN "error" ELSE "localise"
           /\ record' = IF r.err # NoError THEN record ELSE Head(r.out)
           /\ lin' = IF r.err # NoError THEN lin ELSE Head(r.out)
           /\ pending' = IF r.err # NoError THEN <<>> ELSE Tail(r.out)
           /\ part' = IF r.err = NoError /\ Len(r.out) = 2 THEN "split1" ELSE part
           /\ proc' = after_stage(proc, r.err)
    /\ UNCHANGED <<opts, hdr, record_no, written, rin, sin>>
    /\ UNCHANGED bin_vars

\* localise_fn with laa what determine_laa leaves in the cache: [err, record, ub]
localise_fn(rec, no, h, o, laa, garbage) ==
    IF o.local_alleles # 0 /\ Len(rec.alt) > o.local_alleles
    THEN localise_alleles(rec, no, h, o, laa, garbage)
    ELSE IF o.local_alleles # 0 /\ o.transform_all
    THEN pseudo_localise_alleles(rec, no, h, o)
    ELSE [err |-> NoError, record |-> rec, ub |-> FALSE]

\* the cache.laa values localise_fn can meet
localise_laa(rec, h, o) ==
    IF o.local_alleles # 0 /\ Len(rec.alt) > o.local_alleles
    THEN laa_of(rec, h, o)
    ELSE {<<>>}

\* a run with undefined behaviour goes on with what it computed or is ended
\* by the system
Localise ==
    /\ pc = "localise"
    /\ \E laa \in localise_laa(record, hdr, opts), garbage \in Garbage :
       \E r \in {localise_fn(record, record_no, hdr, opts, laa, garbage)} :
           /\ err' = r.err
           /\ record' = r.record
           /\ pc' \in IF r.err # NoError THEN {"error"}
                      ELSE IF r.ub THEN {"write", "crashed"}
                      ELSE {"write"}
           /\ proc' = after_stage(proc, r.err)
    /\ UNCHANGED bin_vars
    /\ UNCHANGED <<opts, hdr, record_no, filter_vectors, pending, part, written,
                   rin, sin, lin>>

\* writer.push_back(record); the loop then resumes split_fn, which yields the
\* long copy to localise_fn if it split, and ends otherwise
Write ==
    /\ pc = "write"
    /\ written' = Append(written, <<record_no, part>>)
    /\ IF pending # <<>>
       THEN /\ record' = Head(pending)
            /\ lin' = Head(pending)
            /\ pending' = Tail(pending)
            /\ part' = "split2"
            /\ pc' = "localise"
            /\ UNCHANGED <<rin, sin>>
       ELSE /\ record' = NoRecord
            /\ pending' = <<>>
            /\ part' = "none"
            /\ pc' = "pull"
            /\ rin' = NoRecord
            /\ sin' = NoRecord
            /\ lin' = NoRecord
    /\ UNCHANGED <<opts, hdr, record_no, filter_vectors, err, proc>>
    /\ UNCHANGED bin_vars

Next == Pull \/ EndOfInput \/ RemoveRare \/ Split \/ Localise \/ Write

Spec == Init /\ [][Next]_vars

(* ---------------- binalleles.cpp ---------------------------------------- *)
\* bin_by_length and same_length_splits (binalleles.cpp:92-103)
BinOptions ==
    {[bin_by_length |-> b, same_length_splits |-> l] : b \in BOOLEAN, l \in BOOLEAN}

\* the integer columns bio::io reads: concatenated_sequences of int8_t,
\* int16_t or int32_t
IntTags == {"concat_int8", "concat_int16", "concat_int32"}

\* std::numeric_limits<int_t>::max()
numeric_limits_max(tag) ==
    CASE tag = "concat_int8" -> 127
      [] tag = "concat_int16" -> 32767
      [] OTHER -> 2147483647

\* the header of the writer: a new one with the four INFO fields and GT and
\* PL if bin_by_length, the reader's otherwise (binalleles.cpp:151-204)
BinHeader(o) ==
    IF o.bin_by_length
    THEN [n_samples |-> NSamples,
          infos |-> [REFBIN_INDEXES |-> ".", REFBIN_MAXLEN |-> "1",
                     ALTBIN_INDEXES |-> ".", ALTBIN_MINLEN |-> "1"],
          formats |-> [GT |-> "1", PL |-> "G"]]
    ELSE Header("A", 0)

\* new_rec as main sets it up (binalleles.cpp:214-230)
InitialNewRec(n_samples) ==
    [chrom |-> "", pos |-> 0, id |-> "", ref |-> "", alt |-> <<".", ".">>,
     info |-> << [id |-> "REFBIN_MAXLEN", tag |-> "int", val |-> 0],
                 [id |-> "ALTBIN_MINLEN", tag |-> "int", val |-> 0],
                 [id |-> "REFBIN_INDEXES", tag |-> "vec_int", val |-> <<>>],
                 [id |-> "ALTBIN_INDEXES", tag |-> "vec_int", val |-> <<>>] >>,
     genotypes |-> << [id |-> "GT", tag |-> "vec_string",
                       data |-> [s \in 1..n_samples |-> ""], delim |-> <<>>],
                      [id |-> "PL", tag |-> "concat_int16",
                       data |-> <<>>, delim |-> <<0>>] >>]

\* concatenated_sequences_create_scaffold (misc.hpp:136-151)
concatenated_sequences_create_scaffold(id, tag, outer_size, inner_size) ==
    [id |-> id, tag |-> tag,
     data |-> [k \in 1..(outer_size * inner_size) |-> 0],
     delim |-> [k \in 1..(outer_size + 1) |-> (k - 1) * inner_size]]

\* establish_PLs: the column of new_rec is kept as it is if it holds values of
\* the width of the input, and replaced by a scaffold otherwise
establish_PLs(variant, tag, n_samples) ==
    IF variant.tag # tag
    THEN concatenated_sequences_create_scaffold("PL", tag, n_samples, 3)
    ELSE variant

\* the order of std::pair<size_t, size_t>
pair_less(p, q) == p[1] < q[1] \/ (p[1] = q[1] /\ p[2] < q[2])

\* allele_lengths after std::ranges::sort: <<length, index>> of REF and of
\* every ALT allele (binalleles.cpp:268-279)
sort_allele_lengths(rec) ==
    SortSeq([k \in 1..(Len(rec.alt) + 1) |->
                IF k = 1 THEN <<Len(rec.ref), 0>>
                ELSE <<Len(rec.alt[k - 1]), k - 1>>],
            pair_less)

\* a loop that skips no cut
next_cut_all(lengths, from, o) ==
    IF from >= Len(lengths) - 1 THEN Len(lengths) - 1 ELSE from

\* the loop index, from `from` on, of the first cut that is not skipped, or
\* size - 1 when the loop ends (binalleles.cpp:286-292)
RECURSIVE next_cut(_, _, _)
next_cut(lengths, from, o) ==
    IF from >= Len(lengths) - 1 THEN Len(lengths) - 1
    ELSE IF lengths[from + 1][1] = lengths[from + 2][1] /\ ~o.same_length_splits
    THEN next_cut(lengths, from + 1, o)
    ELSE from

\* refbin_max and altbin_min are assigned before the test that skips a cut
skipped_cuts(nr, lengths, from, to) ==
    IF to > from
    THEN [nr EXCEPT !.info[1].val = lengths[to][1], !.info[2].val = lengths[to + 1][1]]
    ELSE nr

\* bins that put the allele at position i on the ALT side
fill_bins_before(nr, rec, lengths, i) ==
    [nr EXCEPT !.id = IF rec.id # "." THEN rec.id \o "_div_" \o ToString(i) ELSE @,
               !.info[1].val = lengths[i + 1][1],
               !.info[2].val = lengths[i + 2][1],
               !.info[3].val = [k \in 1..i |-> lengths[k][2]],
               !.info[4].val = [k \in 1..(Len(lengths) - i) |-> lengths[i + k][2]]]

\* the id, the lengths and the indexes of cut i (binalleles.cpp:288-301)
fill_bins(nr, rec, lengths, i) ==
    [nr EXCEPT !.id = IF rec.id # "." THEN rec.id \o "_div_" \o ToString(i) ELSE @,
               !.info[1].val = lengths[i + 1][1],
               !.info[2].val = lengths[i + 2][1],
               !.info[3].val = [k \in 1..(i + 1) |-> lengths[k][2]],
               !.info[4].val = [k \in 1..(Len(lengths) - i - 1) |-> lengths[i + 1 + k][2]]]

\* the smallest element of a non-empty set of integers
set_min(S) == CHOOSE x \in S : \A y \in S : x <= y

\* out_PL[0] and out_PL[2]: the loops over b and a in one bin, a <= b
same_bin_min(in_PLs, s, bin, garbage) ==
    set_min({numeric_limits_max(in_PLs.tag)} \cup
            {span_at(in_PLs, s, vcf_gt_formula(bin[a], bin[b]), garbage) :
                <<a, b>> \in {p \in (1..Len(bin)) \X (1..Len(bin)) : bin[p[1]] <= bin[p[2]]}})

\* a pair of loops that takes b from the first bin and a from the second
one_way_min(in_PLs, s, bs, as, garbage) ==
    set_min({numeric_limits_max(in_PLs.tag)} \cup
            {span_at(in_PLs, s, vcf_gt_formula(as[a], bs[b]), garbage) :
                <<a, b>> \in {p \in (1..Len(as)) \X (1..Len(bs)) : as[p[1]] <= bs[p[2]]}})

\* out_PL[1]: b in refbin and a in altbin, then b in altbin and a in refbin,
\* a <= b (binalleles.cpp:333-341)
mixed_min(in_PLs, s, refbin, altbin, garbage) ==
    set_min({one_way_min(in_PLs, s, refbin, altbin, garbage),
             one_way_min(in_PLs, s, altbin, refbin, garbage)})

\* the three values of sample s (binalleles.cpp:326-348)
out_PL(in_PLs, s, refbin, altbin, garbage) ==
    << same_bin_min(in_PLs, s, refbin, garbage),
       mixed_min(in_PLs, s, refbin, altbin, garbage),
       same_bin_min(in_PLs, s, altbin, garbage) >>

\* out_GTs[j] by std::ranges::min_element(out_PL) (binalleles.cpp:350-364)
out_GT(row) ==
    CASE min_element(row) = 1 -> "0/0"
      [] min_element(row) = 2 -> "0/1"
      [] OTHER -> "1/1"

\* the visitor with rows the values it computed: out holds the column
\* establish_PLs returned.  The values are written to out_PLs[j]; if that
\* column has no rows of three values the writes go outside of it
\* (undefined behaviour) and the column stays what it was.
store_PLs(nr, out, rows, ub) ==
    [kind |-> "yield", err |-> NoError,
     new_rec |-> [nr EXCEPT !.genotypes[1].data = [s \in 1..Len(rows) |-> out_GT(rows[s])],
                            !.genotypes[2] = IF reads_outside(out, 3) \/ Len(out.delim) - 1 < Len(rows)
                                             THEN out
                                             ELSE [out EXCEPT !.data = Flatten(rows)]],
     ub |-> ub \/ reads_outside(out, 3) \/ Len(out.delim) - 1 < Len(rows)]

\* the visitor of the PL column of the record (binalleles.cpp:303-366)
visit_PL(nr, in_PLs, n_alts, no, h, garbage) ==
    IF in_PLs.tag \notin IntTags
    THEN [kind |-> "throw", err |-> [kind |-> "PLTypeMismatch", no |-> -1],
          new_rec |-> nr, ub |-> FALSE]
    ELSE IF Len(in_PLs.data) # h.n_samples * (vcf_gt_formula(n_alts, n_alts) + 1)
    THEN [kind |-> "throw", err |-> [kind |-> "DiploidOrCardinalityMismatch", no |-> no],
          new_rec |-> nr, ub |-> FALSE]
    ELSE store_PLs(nr,
                   establish_PLs(nr.genotypes[2], in_PLs.tag, h.n_samples),
                   [s \in 1..h.n_samples |->
                       out_PL(in_PLs, s, nr.info[3].val, nr.info[4].val, garbage)],
                   reads_outside(in_PLs, vcf_gt_formula(n_alts, n_alts) + 1))

\* the loop of bin_by_length_fn at index i: its end, or the body for cut i up
\* to the co_yield: [kind, err, new_rec, ub, cut]
bin_at(nr, rec, lengths, from, i, no, h, garbage) ==
    IF i >= Len(lengths) - 1
    THEN [kind |-> "return", err |-> NoError,
          new_rec |-> skipped_cuts(nr, lengths, from, i), ub |-> FALSE, cut |-> i]
    ELSE [cut |-> i] @@
         visit_PL(fill_bins(nr, rec, lengths, i),
                  rec.genotypes[IndexOf(rec.genotypes, "PL")],
                  Len(rec.alt), no, h, garbage)

\* the loop of bin_by_length_fn from index `from` on, up to its next co_yield
\* or its end
bin_loop(nr, rec, lengths, from, no, h, o, garbage) ==
    bin_at(nr, rec, lengths, from, next_cut(lengths, from, o), no, h, garbage)

\* bin_by_length_fn from its start to its first co_yield: the record is
\* handed on as it is ("pass") if it has at most one ALT allele, if
\* bin_by_length is off or if it has no PL (binalleles.cpp:243-286)
bin_by_length_fn(nr, rec, no, h, o, garbage) ==
    IF Len(rec.alt) <= 1 \/ ~o.bin_by_length \/ IndexOf(rec.genotypes, "PL") = 0
    THEN [kind |-> "pass", err |-> NoError, new_rec |-> nr, ub |-> FALSE, cut |-> 0]
    ELSE bin_loop([nr EXCEPT !.chrom = rec.chrom, !.pos = rec.pos],
                  rec, sort_allele_lengths(rec), 0, no, h, o, garbage)

(* ---------------- binalleles.cpp: the input records -------------------- *)
SameLength == <<"T", "G", "C", "N", "Y">>

\* REF and ALT alleles: lengths 1 and 2 mixed, long alleles at the odd
\* positions behind a REF of length 3, all of length 1, and A with T,G,ATG
BinAlleles ==
    UNION {{[ref |-> "A", alt |-> [k \in 1..n |-> ShortAllele[k]]],
            [ref |-> "ACG", alt |-> [k \in 1..n |-> IF k \in Odd(n) THEN LongAllele[k]
                                                    ELSE ShortAllele[k]]],
            [ref |-> "A", alt |-> [k \in 1..n |-> SameLength[k]]]}
           : n \in 0..MaxAlts}
    \cup {[ref |-> "A", alt |-> <<"T", "G", "ATG">>]}

BinRecord(al, seed, tag) ==
    [chrom |-> "chr1", pos |-> 100 + seed,
     id |-> IF seed % 2 = 1 THEN "." ELSE "rs7",
     ref |-> al.ref, alt |-> al.alt,
     info |-> << [id |-> "DP", tag |-> "int", val |-> 30] >>,
     genotypes |-> << InputGT(NSamples),
                      [Column("PL", NSamples, Width("G", Len(al.alt)), seed)
                          EXCEPT !.tag = tag] >>]

BinDefects == {"no_PL", "PL_type", "PL_len", "PL_ragged"}

BinDefective(r, d) ==
    CASE d = "no_PL" -> [r EXCEPT !.genotypes = DropId(r.genotypes, "PL")]
      [] d = "PL_type" -> [r EXCEPT !.genotypes[2].tag = "vec_string"]
      [] d = "PL_len" -> [r EXCEPT !.genotypes[2] = Short(@)]
      [] OTHER -> [r EXCEPT !.genotypes[2] = Ragged(@)]

\* the first record of an input
BinInputs ==
         {BinRecord(al, seed, tag) : al \in BinAlleles, seed \in 1..NSeeds, tag \in IntTags}
    \cup {BinDefective(BinRecord([ref |-> "A", alt |-> <<"T", "G", "ATG">>], 2, "concat_int32"), d) :
              d \in BinDefects}
    \cup {BinDefective(BinRecord([ref |-> "A", alt |-> <<"T", "G">>], 2, "concat_int32"),
                        "PL_type")}

\* the later records: fewer
BinFollowers ==
    {BinRecord([ref |-> "A", alt |-> <<"T", "G", "ATG">>], 1, "concat_int32"),
     BinRecord([ref |-> "A", alt |-> <<"TAAC", "GC">>], 2, "concat_int16"),
     BinRecord([ref |-> "A", alt |-> <<"T">>], 1, "concat_int8"),
     BinDefective(BinRecord([ref |-> "A", alt |-> <<"T", "GC">>], 2, "concat_int32"), "PL_len")}

(* ---------------- binalleles.cpp: the pipeline -------------------------- *)
InitBin ==
    /\ opts \in BinOptions
    /\ hdr = BinHeader(opts)
    /\ pc = "bin_pull"
    /\ record_no = -1
    /\ filter_vectors = [A |-> <<>>, R |-> <<>>, G |-> <<>>,
                         formula_reverse_cache |-> <<>>]
    /\ record = NoRecord
    /\ pending = <<>>
    /\ part = "none"
    /\ written = <<>>
    /\ err = NoError
    /\ rin = NoRecord
    /\ sin = NoRecord
    /\ lin = NoRecord
    /\ new_rec = InitialNewRec(NSamples)
    /\ allele_lengths = <<>>
    /\ cut = 0
    /\ proc = Running

\* the writer asks for a record and bin_by_length_fn of the last one has
\* ended: the reader delivers the next record and pre_fn counts it
BinPull ==
    /\ pc = "bin_pull"
    /\ record_no + 1 < MaxRecords
    /\ record' \in (IF record_no = -1 THEN BinInputs ELSE BinFollowers)
    /\ record_no' = record_no + 1
    /\ pc' = "bin"
    /\ UNCHANGED <<opts, hdr, filter_vectors, pending, part, written, err,
                   rin, sin, lin, proc>>
    /\ UNCHANGED bin_vars

\* the reader is at the end of its input: the pipeline and main end
BinEndOfInput ==
    /\ pc = "bin_pull"
    /\ pc' = "done"
    /\ proc' = returned_0(proc)
    /\ UNCHANGED <<opts, hdr, record_no, filter_vectors, record, pending, part,
                   written, err, rin, sin, lin>>
    /\ UNCHANGED bin_vars

\* bin_by_length_fn has run up to r: a co_yield of the record ("pass") or of
\* new_rec ("yield"), its end ("return") or a decovar_error ("throw")
Resumed(r) ==
    /\ new_rec' = r.new_rec
    /\ err' = r.err
    /\ proc' = after_stage(proc, r.err)
    /\ cut' = IF r.kind = "yield" THEN r.cut ELSE 0
    /\ part' = CASE r.kind = "pass" -> "whole"
                 [] r.kind = "yield" -> "cut"
                 [] OTHER -> "none"
    /\ record' = IF r.kind = "return" THEN NoRecord ELSE record
    /\ pc' \in CASE r.kind = "throw" -> {"error"}
                 [] r.kind = "return" -> {"bin_pull"}
                 [] r.kind = "yield" /\ r.ub -> {"bin_write", "crashed"}
                 [] OTHER -> {"bin_write"}

\* bin_by_length_fn starts on the record
Bin ==
    /\ pc = "bin"
    /\ \E garbage \in Garbage :
       \E r \in {bin_by_length_fn(new_rec, record, record_no, hdr, opts, garbage)} :
           /\ Resumed(r)
           /\ allele_lengths' = IF r.kind = "yield" THEN sort_allele_lengths(record)
                                ELSE <<>>
    /\ UNCHANGED <<opts, hdr, record_no, filter_vectors, pending, written,
                   rin, sin, lin>>

\* the writer takes the yielded record and asks for the next: bin_by_length_fn
\* ends after a record it handed on, and goes on with its loop after new_rec
BinWrite ==
    /\ pc = "bin_write"
    /\ written' = Append(written, <<record_no, part, cut>>)
    /\ IF part = "whole"
       THEN /\ pc' = "bin_pull"
            /\ record' = NoRecord
            /\ part' = "none"
            /\ UNCHANGED <<new_rec, allele_lengths, cut, err, proc>>
       ELSE \E garbage \in Garbage :
            \E r \in {bin_loop(new_rec, record, allele_lengths, cut + 1,
                               record_no, hdr, opts, garbage)} :
                /\ Resumed(r)
                /\ allele_lengths' = IF r.kind = "yield" THEN allele_lengths ELSE <<>>
    /\ UNCHANGED <<opts, hdr, record_no, filter_vectors, pending, rin, sin, lin>>

NextBin == BinPull \/ BinEndOfInput \/ Bin \/ BinWrite

SpecBin == InitBin /\ [][NextBin]_vars

(* ---------------- main.cpp: both subcommands --------------------------- *)
\* main runs allele or _binalleles::main, whichever the subcommand names
\* (main.cpp:33-36)
InitAll == Init \/ InitBin

NextAll == Next \/ NextBin

SpecAll == InitAll /\ [][NextAll]_vars

(* ---------------- properties: what the stages did ------------------------ *)
HasField(entries, id) == IndexOf(entries, id) # 0
Field(entries, id) == entries[IndexOf(entries, id)]

\* the number of 0 entries of a filter vector
Zeros(f) == Cardinality({i \in 1..Len(f) : f[i] = 0})

\* the number of values a field of a declared number holds per sample for
\* n_alts ALT alleles
expected(number, n_alts) ==
    CASE number = "A" -> n_alts
      [] number = "R" -> n_alts + 1
      [] number = "G" -> ((n_alts + 1) * (n_alts + 2)) \div 2

\* the ALT alleles (1-based) of a record that reached the rare-allele stage
\* whose AF is not below the threshold
CommonAlts(rec) ==
    {i \in 1..Len(rec.alt) : Field(rec.info, "AF").val[i] >= opts.rare_af_threshold}

ShortAlts(rec) == {i \in 1..Len(rec.alt) : Len(rec.alt[i]) <= opts.split_by_length}
LongAlts(rec) == {i \in 1..Len(rec.alt) : Len(rec.alt[i]) > opts.split_by_length}

\* the rare-allele stage has rewritten the record of the reader, rin, to sin:
\* it ran, found a rare allele and yielded
RemovalRewrote ==
    /\ sin # NoRecord
    /\ opts.rare_af_threshold # 0
    /\ Len(rin.alt) > 1
    /\ CommonAlts(rin) # 1..Len(rin.alt)

\* the splitter has rewritten its input sin to the copy lin
SplitRewrote == lin # NoRecord /\ part \in {"split1", "split2"}

\* the alleles of sin the copy lin keeps
SplitKeeps == IF part = "split1" THEN ShortAlts(sin) ELSE LongAlts(sin)

\* the retained alleles by rank: REF (0), then the kept ALT alleles
Retained(kept) == Ascending({0} \cup kept)

\* every G-declared FORMAT column of rec holds g(n_alts, n_alts) + 1 values
\* for every sample
WellFormedG(rec) ==
    \A c \in 1..Len(rec.genotypes) :
        hdr.formats[rec.genotypes[c].id] = "G" =>
            \A s \in 1..(Len(rec.genotypes[c].delim) - 1) :
                Len(Inner(rec.genotypes[c], s)) = expected("G", Len(rec.alt))

\* column new is column old with the cells of the pairs of retained alleles, in
\* the triangular layout of their ranks; for PL up to one constant per sample
GColumnRemapped(old, new, retained) ==
    /\ Len(new.delim) = Len(old.delim)
    /\ \A s \in 1..(Len(old.delim) - 1) :
           /\ Len(Inner(new, s)) = expected("G", Len(retained) - 1)
           /\ \A b \in 0..(Len(retained) - 1) : \A a \in 0..b :
                  Inner(new, s)[vcf_gt_formula(a, b) + 1]
                      - (IF old.id = "PL" THEN Inner(new, s)[1] ELSE 0)
                  = Inner(old, s)[vcf_gt_formula(retained[a + 1], retained[b + 1]) + 1]
                      - (IF old.id = "PL" THEN Inner(old, s)[1] ELSE 0)

GRemapped(old, new, retained) ==
    \A c \in 1..Len(old.genotypes) :
        hdr.formats[old.genotypes[c].id] = "G" =>
            /\ HasField(new.genotypes, old.genotypes[c].id)
            /\ GColumnRemapped(old.genotypes[c],
                               Field(new.genotypes, old.genotypes[c].id), retained)

\* C1: after rare-allele removal or splitting rewrote a record whose G columns
\* hold g(n_alts, n_alts) + 1 values per sample, every G column holds, for
\* every sample and every pair a <= b of retained alleles with ranks a' <= b',
\* new[s][g(a', b')] = old[s][g(a, b)], for PL minus one constant per sample
C1_GRemap ==
    /\ (RemovalRewrote /\ WellFormedG(rin))
           => GRemapped(rin, sin, Retained(CommonAlts(rin)))
    /\ (SplitRewrote /\ WellFormedG(sin))
           => GRemapped(sin, lin, Retained(SplitKeeps))

\* a record of three ALT alleles lost its first one, its PL rows were
\* renormalised, and what is left was split
C1_Witness ==
    /\ RemovalRewrote /\ WellFormedG(rin)
    /\ CommonAlts(rin) = {2, 3}
    /\ HasField(rin.genotypes, "PL")
    /\ \E s \in 1..NSamples :
           Inner(Field(sin.genotypes, "PL"), s)[1] # Inner(Field(rin.genotypes, "PL"), s)[1]
    /\ SplitRewrote /\ part = "split2"

\* C2: after rare-allele removal modified a record, with k the number of 0
\* entries of the A filter: alt has length k, the R and G filters have k + 1
\* and g(k, k) + 1 zeros, G[g(a, b)] = R[a] OR R[b], every INFO vector
\* declared A or R and every row of a FORMAT column declared A, R or G has as
\* many values as its filter has zeros
C2_Lengths ==
    (pc = "split" /\ RemovalRewrote) =>
        LET fv == filter_vectors
            k == Zeros(fv.A)
            zeros == [A |-> Zeros(fv.A), R |-> Zeros(fv.R), G |-> Zeros(fv.G)]
        IN  /\ Len(record.alt) = k
            /\ Zeros(fv.R) = k + 1
            /\ Zeros(fv.G) = vcf_gt_formula(k, k) + 1
            /\ \A b \in 0..Len(rin.alt) : \A a \in 0..b :
                   (fv.G[vcf_gt_formula(a, b) + 1] # 0)
                       <=> (fv.R[a + 1] # 0 \/ fv.R[b + 1] # 0)
            /\ \A i \in 1..Len(record.info) :
                   hdr.infos[record.info[i].id] \in {"A", "R"} =>
                       Len(record.info[i].val) = zeros[hdr.infos[record.info[i].id]]
            /\ \A c \in 1..Len(record.genotypes) :
                   hdr.formats[record.genotypes[c].id] \in {"A", "R", "G"} =>
                       \A s \in 1..(Len(record.genotypes[c].delim) - 1) :
                           Len(Inner(record.genotypes[c], s))
                               = zeros[hdr.formats[record.genotypes[c].id]]

\* the middle one of three ALT alleles was removed
C2_Witness ==
    /\ pc = "split" /\ RemovalRewrote
    /\ filter_vectors.A = <<0, 1, 0>>
    /\ Len(record.alt) = 2
    /\ hdr.infos.AF = "A"

\* every FORMAT field of rec declared A, R or G has n_samples * expected(n_alts)
\* values and the delimiters i * expected(n_alts), i in 0..n_samples
CardinalityOK(rec) ==
    \A c \in 1..Len(rec.genotypes) :
        hdr.formats[rec.genotypes[c].id] \in {"A", "R", "G"} =>
            LET col == rec.genotypes[c]
                e == expected(hdr.formats[col.id], Len(rec.alt))
            IN  /\ Len(col.data) = hdr.n_samples * e
                /\ Len(col.delim) = hdr.n_samples + 1
                /\ \A i \in 0..hdr.n_samples : col.delim[i + 1] = i * e

\* C3: if the input record has its FORMAT fields declared A, R or G in the
\* regular layout (n_samples * expected(n_alts) values, delimiters
\* i * expected(n_alts)), so has every record the rare-allele filter, the
\* splitter and the local-allele projector emit, for the fields still on it
C3_Cardinality ==
    CardinalityOK(rin) =>
        /\ sin # NoRecord => CardinalityOK(sin)
        /\ lin # NoRecord => CardinalityOK(lin)
        /\ pc = "write" => CardinalityOK(record)

\* the short copy of a split record, more ALT alleles than the budget, was
\* projected to local alleles and keeps AD and PL
C3_Witness ==
    /\ pc = "write" /\ part = "split1"
    /\ CardinalityOK(rin)
    /\ Len(record.alt) > opts.local_alleles
    /\ HasField(record.genotypes, "LAA")
    /\ HasField(record.genotypes, "PL") /\ HasField(record.genotypes, "AD")
    /\ Len(record.alt) < Len(rin.alt)

\* the position (1-based) of the first smallest value of a row
FirstMinimum(row) ==
    CHOOSE k \in 1..Len(row) :
        /\ \A j \in 1..Len(row) : row[k] <= row[j]
        /\ \A j \in 1..(k - 1) : row[j] > row[k]

\* every GT of rec is "a/b" for the pair a <= b <= n_alts whose index
\* g(a, b) is the first one at which the sample's PL row is smallest
GTFromPL(rec) ==
    (HasField(rec.genotypes, "GT") /\ HasField(rec.genotypes, "PL")) =>
        LET GT == Field(rec.genotypes, "GT").data
            PL == Field(rec.genotypes, "PL")
        IN  \A s \in 1..Len(GT) :
                \E b \in 0..Len(rec.alt) : \E a \in 0..b :
                    /\ vcf_gt_formula(a, b) + 1 = FirstMinimum(Inner(PL, s))
                    /\ GT[s] = ToString(a) \o "/" \o ToString(b)

\* C4: after rare-allele removal or splitting rewrote a record that has GT
\* and PL, every sample's GT is "a/b", a <= b <= the new n_alts, g(a, b) the
\* lowest index at which the rewritten PL row has its minimum
C4_GT ==
    /\ RemovalRewrote => GTFromPL(sin)
    /\ SplitRewrote => GTFromPL(lin)

\* one sample got a heterozygous GT of two ALT alleles, another another GT
C4_Witness ==
    /\ RemovalRewrote
    /\ HasField(sin.genotypes, "GT") /\ HasField(sin.genotypes, "PL")
    /\ \E s, t \in 1..NSamples :
           /\ Field(sin.genotypes, "GT").data[s] = "1/2"
           /\ Field(sin.genotypes, "GT").data[t] # "1/2"
           /\ Field(rin.genotypes, "GT").data[s] # "1/2"

\* the smallest value of every PL row of rec is 0
PLMinZero(rec) ==
    \A s \in 1..(Len(Field(rec.genotypes, "PL").delim) - 1) :
        LET row == Inner(Field(rec.genotypes, "PL"), s)
        IN  row[FirstMinimum(row)] = 0

\* the PL field of new is the compacted PL field of old, its rows have the
\* minimum 0 and the differences of the values of a row are those of old
PLRenormalised(old, new, retained) ==
    (HasField(old.genotypes, "PL") /\ WellFormedG(old)) =>
        /\ HasField(new.genotypes, "PL")
        /\ PLMinZero(new)
        /\ GColumnRemapped(Field(old.genotypes, "PL"), Field(new.genotypes, "PL"),
                           retained)

\* C5: after rare-allele removal or splitting compacted the PL field of a
\* record, the smallest PL value of every sample is 0 and the differences
\* between the PL values of a sample are preserved
C5_MinZero ==
    /\ RemovalRewrote => PLRenormalised(rin, sin, Retained(CommonAlts(rin)))
    /\ SplitRewrote => PLRenormalised(sin, lin, Retained(SplitKeeps))

\* no PL value of rec is negative
PLNonNegative(rec) ==
    HasField(rec.genotypes, "PL") =>
        \A k \in 1..Len(Field(rec.genotypes, "PL").data) :
            Field(rec.genotypes, "PL").data[k] >= 0

\* what the code does keep of C5: a record without negative PL values gets
\* the minimum 0 in every row
C5_NonNegative ==
    /\ (RemovalRewrote /\ PLNonNegative(rin))
           => PLRenormalised(rin, sin, Retained(CommonAlts(rin)))
    /\ (SplitRewrote /\ PLNonNegative(sin))
           => PLRenormalised(sin, lin, Retained(SplitKeeps))

\* rec has a float AF vector with one value per ALT allele, all of them below
\* the threshold
AllRare(rec) ==
    /\ HasField(rec.info, "AF")
    /\ Field(rec.info, "AF").tag = "vec_float"
    /\ Len(Field(rec.info, "AF").val) = Len(rec.alt)
    /\ \A i \in 1..Len(rec.alt) : Field(rec.info, "AF").val[i] < opts.rare_af_threshold

\* C6, as the code has it: with a non-zero threshold a record with at least
\* two ALT alleles, all of them with AF below the threshold, is dropped by the
\* rare-allele stage: nothing of it goes to the splitter, the projector or
\* the writer, no error is raised, and the loop asks for the next record
C6_Dropped ==
    [][(/\ pc = "remove"
        /\ opts.rare_af_threshold # 0
        /\ Len(record.alt) >= 2
        /\ AllRare(record))
       => (/\ pc' = "pull"
           /\ record' = NoRecord /\ rin' = NoRecord
           /\ sin' = sin /\ lin' = lin /\ pending' = pending
           /\ written' = written
           /\ err' = NoError)]_vars

\* the first record was dropped and the second one was written
C6_Witness ==
    /\ opts.rare_af_threshold # 0
    /\ record_no = 1
    /\ written = <<<<1, "whole">>>>
    /\ pc = "pull"

\* C6 as stated, for every record with at least one ALT allele: while such a
\* record is in the pipeline it is in front of the rare-allele stage
C6_DroppedFromOne ==
    (/\ rin # NoRecord
     /\ opts.rare_af_threshold # 0
     /\ Len(rin.alt) >= 1
     /\ AllRare(rin))
    => (pc = "remove" /\ sin = NoRecord /\ lin = NoRecord)

\* C7: the rare-allele stage applied to a record it has yielded (same header,
\* same threshold) raises no error and yields that record unchanged
C7_Idempotent ==
    (pc = "split" /\ opts.rare_af_threshold # 0) =>
        LET again == remove_rare_alleles_fn(record, record_no, hdr, opts, filter_vectors)
        IN  /\ again.err = NoError
            /\ ~again.skip
            /\ again.record = record

\* what the code does keep of C7: the second pass changes nothing if the
\* header declares AF with the number A
C7_IdempotentDeclaredA ==
    (pc = "split" /\ opts.rare_af_threshold # 0 /\ hdr.infos.AF = "A") =>
        LET again == remove_rare_alleles_fn(record, record_no, hdr, opts, filter_vectors)
        IN  /\ again.err = NoError
            /\ ~again.skip
            /\ again.record = record

\* C8: with the threshold 0 the rare-allele stage yields every record it
\* gets, once and unchanged, and raises no error, whatever AF is
C8_Identity ==
    [][(pc = "remove" /\ opts.rare_af_threshold = 0)
       => (/\ pc' = "split"
           /\ record' = record
           /\ sin' = record
           /\ rin' = rin
           /\ err' = NoError)]_vars

\* a record of several ALT alleles without AF went through the stage
C8_Witness ==
    /\ opts.rare_af_threshold = 0
    /\ pc = "split"
    /\ Len(rin.alt) > 1
    /\ ~HasField(rin.info, "AF")
    /\ sin = rin

\* rec has to be split: the cutoff is on, rec has two ALT alleles or more,
\* one not longer than the cutoff and one longer
TwoCopies(rec) ==
    /\ opts.split_by_length > 0
    /\ Len(rec.alt) >= 2
    /\ ShortAlts(rec) # {}
    /\ LongAlts(rec) # {}

\* C9, as the code has it: the splitter emits two records if the cutoff is
\* on and the record has two ALT alleles or more, one not longer than the
\* cutoff and one longer, and the rewriting of the copies raises no error; it
\* emits none if that rewriting raises an error; in every other case it emits
\* its input, unchanged, and nothing else
C9_TwoOrOne ==
    [][pc = "split" =>
          IF TwoCopies(record)
          THEN \/ err' # NoError /\ pc' = "error" /\ written' = written
               \/ /\ err' = NoError /\ pc' = "localise"
                  /\ part' = "split1" /\ Len(pending') = 1
          ELSE /\ err' = NoError /\ pc' = "localise"
               /\ part' = "whole" /\ pending' = <<>>
               /\ record' = record]_vars

\* both copies of a split record were written
C9_Witness ==
    /\ pc = "pull"
    /\ written = <<<<0, "split1">>, <<0, "split2">>>>

\* C9 as stated: once the splitter is through with its input, there are two
\* copies if the input had to be split and there is the input itself if not
C9_TwoOrOneAlways ==
    (sin # NoRecord /\ pc # "split") =>
        IF TwoCopies(sin)
        THEN part \in {"split1", "split2"} /\ lin # NoRecord
        ELSE part = "whole" /\ lin = sin

\* the elements of seq at the positions in S, in their order
Pick(seq, S) == [i \in 1..Cardinality(S) |-> seq[Ascending(S)[i]]]

\* C10: the first copy of a split record has the ALT alleles not longer than
\* the cutoff, the second one the longer ones, in their original order, both
\* lists non-empty; both keep REF; the ids get "_split1" and "_split2"
\* unless the id is "."
C10_Copies ==
    (pc = "localise" /\ part = "split1") =>
        LET first == record
            second == Head(pending)
        IN  /\ first.alt = Pick(sin.alt, ShortAlts(sin))
            /\ second.alt = Pick(sin.alt, LongAlts(sin))
            /\ first.alt # <<>> /\ second.alt # <<>>
            /\ Len(first.alt) + Len(second.alt) = Len(sin.alt)
            /\ first.ref = sin.ref /\ second.ref = sin.ref
            /\ first.id = (IF sin.id = "." THEN "." ELSE sin.id \o "_split1")
            /\ second.id = (IF sin.id = "." THEN "." ELSE sin.id \o "_split2")

\* a record with an id and three ALT alleles, the middle one short
C10_Witness ==
    /\ pc = "localise" /\ part = "split1"
    /\ sin.id = "rs7"
    /\ ShortAlts(sin) = {2} /\ LongAlts(sin) = {1, 3}
    /\ record.id = "rs7_split1"

(* ---------------- properties: local alleles ----------------------------- *)
\* the projector ran localise_alleles on lin, a record with more ALT alleles
\* than the budget, and yielded record
Projected ==
    /\ pc = "write"
    /\ opts.local_alleles # 0
    /\ lin # NoRecord
    /\ Len(lin.alt) > opts.local_alleles

\* C11: after the projection of a record with n_alts > L the LAA column has
\* n_samples rows, each with exactly L entries, all in 1..n_alts, in strictly
\* ascending order (so pairwise distinct, and never the REF index 0)
C11_LAARows ==
    Projected =>
        /\ HasField(record.genotypes, "LAA")
        /\ LET laa == Field(record.genotypes, "LAA")
           IN  /\ Len(laa.delim) - 1 = hdr.n_samples
               /\ \A s \in 1..hdr.n_samples :
                      /\ Len(Inner(laa, s)) = opts.local_alleles
                      /\ \A j \in 1..opts.local_alleles :
                             Inner(laa, s)[j] \in 1..Len(lin.alt)
                      /\ \A j \in 1..(opts.local_alleles - 1) :
                             Inner(laa, s)[j] < Inner(laa, s)[j + 1]

\* three ALT alleles, a budget of two, and two samples with different rows
C11_Witness ==
    /\ Projected
    /\ Len(lin.alt) = 3 /\ opts.local_alleles = 2
    /\ Inner(Field(record.genotypes, "LAA"), 1) = <<1, 3>>
    /\ Inner(Field(record.genotypes, "LAA"), 2) # <<1, 3>>

\* f[0] + ... + f[m]
RECURSIVE SumOver(_, _)
SumOver(f, m) == IF m < 0 THEN 0 ELSE f[m] + SumOver(f, m - 1)

RowMax(row) == CHOOSE v \in {row[k] : k \in 1..Len(row)} :
                   \A k \in 1..Len(row) : row[k] <= v

\* the accumulated score of allele x for the PL row of a sample with n ALT
\* alleles, times 10^(RowMax/10): every pair a <= b adds 10^(-PL[g(a,b)]/10)
\* to the score of a and to the score of b
Score(row, n, x) ==
    SumOver([b \in 0..n |->
                SumOver([a \in 0..b |->
                            ((IF a = x THEN 1 ELSE 0) + (IF b = x THEN 1 ELSE 0))
                                * 10 ^ ((RowMax(row) - row[vcf_gt_formula(a, b) + 1]) \div 10)],
                        b)],
            n)

\* the PL rows of rec hold g(n_alts, n_alts) + 1 values each
RegularPL(rec) ==
    /\ HasField(rec.genotypes, "PL")
    /\ \A s \in 1..hdr.n_samples :
           Len(Inner(Field(rec.genotypes, "PL"), s)) = expected("G", Len(rec.alt))

\* the set of the alleles of the LAA row of sample s
LocalSet(s) ==
    {Inner(Field(record.genotypes, "LAA"), s)[j] : j \in 1..opts.local_alleles}

GlobalOf(s, a) ==
    IF a = 0 THEN 0 ELSE Inner(Field(record.genotypes, "LAA"), s)[a]

LADFromAD ==
    /\ HasField(record.genotypes, "LAD")
    /\ \A s \in 1..hdr.n_samples :
           LET lad == Inner(Field(record.genotypes, "LAD"), s)
               ad == Inner(Field(lin.genotypes, "AD"), s)
               laa == Inner(Field(record.genotypes, "LAA"), s)
           IN  /\ Len(lad) = opts.local_alleles + 1
               /\ Len(ad) >= 1
               /\ lad[1] = ad[1]
               /\ \A j \in 1..opts.local_alleles :
                      /\ laa[j] + 1 <= Len(ad)
                      /\ lad[j + 1] = ad[laa[j] + 1]

\* C14: after the projection of a record with an integer AD column every LAD
\* row has L + 1 values, the AD value of REF and then the AD values of the
\* local alleles of the sample; a record without AD gets no LAD
C14_LAD ==
    Projected =>
        IF HasField(lin.genotypes, "AD")
        THEN LADFromAD
        ELSE ~HasField(record.genotypes, "LAD")

\* the AD rows of rec hold n_alts + 1 values each
RegularAD(rec) ==
    HasField(rec.genotypes, "AD") =>
        \A s \in 1..hdr.n_samples :
            Len(Inner(Field(rec.genotypes, "AD"), s)) = Len(rec.alt) + 1

\* the statement of C14 for the records whose AD rows are complete
C14_LADComplete ==
    (Projected /\ RegularAD(lin)) =>
        IF HasField(lin.genotypes, "AD")
        THEN LADFromAD
        ELSE ~HasField(record.genotypes, "LAD")

(* ---------------- properties: the length binner ------------------------- *)
\* bin_by_length_fn has yielded new_rec for a cut of record
BinYielded == pc = "bin_write" /\ part = "cut"

\* the elements of a sequence
Range(f) == {f[k] : k \in 1..Len(f)}

REFBIN == Range(Field(new_rec.info, "REFBIN_INDEXES").val)
ALTBIN == Range(Field(new_rec.info, "ALTBIN_INDEXES").val)

\* the unordered pairs a <= b with one allele in X and the other in Y
PairsIn(X, Y) ==
    {p \in (X \cup Y) \X (X \cup Y) :
        /\ p[1] <= p[2]
        /\ (p[1] \in X /\ p[2] \in Y) \/ (p[1] \in Y /\ p[2] \in X)}

\* the smallest value of a PL row over a set of pairs
MinOver(row, pairs) == set_min({row[vcf_gt_formula(p[1], p[2]) + 1] : p \in pairs})

\* the genotype of the lowest index at which a row of three values is minimal
ArgMinGT(row) ==
    IF row[1] <= row[2] /\ row[1] <= row[3] THEN "0/0"
    ELSE IF row[2] <= row[3] THEN "0/1"
    ELSE "1/1"

\* new_rec is the binned record of the claim: two ALT entries, PL rows of the
\* three minima over the pairs within REFBIN, across the bins and within
\* ALTBIN, each pair of alleles in exactly one of the three sets, and GT by
\* the lowest index of the smallest of the three
BinnedRecordOK ==
    LET out == Field(new_rec.genotypes, "PL")
        in_PL == Field(record.genotypes, "PL")
        all == PairsIn(0..Len(record.alt), 0..Len(record.alt))
        rr == PairsIn(REFBIN, REFBIN)
        ra == PairsIn(REFBIN, ALTBIN)
        aa == PairsIn(ALTBIN, ALTBIN)
    IN  /\ Len(new_rec.alt) = 2
        /\ rr \cup ra \cup aa = all
        /\ rr \cap ra = {} /\ rr \cap aa = {} /\ ra \cap aa = {}
        /\ Len(out.delim) = hdr.n_samples + 1
        /\ \A s \in 1..hdr.n_samples :
               /\ out.delim[s + 1] <= Len(out.data)
               /\ Inner(out, s) = << MinOver(Inner(in_PL, s), rr),
                                     MinOver(Inner(in_PL, s), ra),
                                     MinOver(Inner(in_PL, s), aa) >>
               /\ Field(new_rec.genotypes, "GT").data[s] = ArgMinGT(Inner(out, s))

\* C15: every record the binner yields for a cut of a record with complete PL
\* rows has two entries in alt, per sample the PL row of the minima over the
\* pairs in REFBIN, across the bins and in ALTBIN, and the GT of the lowest
\* index at which that row is minimal
C15_Binned == (BinYielded /\ RegularPL(record)) => BinnedRecordOK

\* the statement of C15 once the PL column of new_rec has its rows: some
\* binned record so far did not have 16-bit PL values
C15_BinnedScaffolded ==
    (BinYielded /\ RegularPL(record) /\ Field(new_rec.genotypes, "PL").delim # <<0>>)
        => BinnedRecordOK

\* the length of allele x of a record, 0 the REF allele
AlleleLen(rec, x) == IF x = 0 THEN Len(rec.ref) ELSE Len(rec.alt[x])

\* allele x comes before allele y in the order by (length, index)
Before(rec, x, y) ==
    \/ AlleleLen(rec, x) < AlleleLen(rec, y)
    \/ AlleleLen(rec, x) = AlleleLen(rec, y) /\ x < y

\* the allele at position k (0-based) of that order
SortedPos(rec, k) ==
    CHOOSE x \in 0..Len(rec.alt) :
        Cardinality({y \in 0..Len(rec.alt) : Before(rec, y, x)}) = k

\* the cuts for which a record is to be emitted
ExpectedCuts(rec) ==
    {c \in 0..(Len(rec.alt) - 1) :
        \/ AlleleLen(rec, SortedPos(rec, c)) # AlleleLen(rec, SortedPos(rec, c + 1))
        \/ opts.same_length_splits}

DistinctLengths(rec) == Cardinality({AlleleLen(rec, x) : x \in 0..Len(rec.alt)})

\* the binner runs its loop on rec
IsBinned(rec) ==
    /\ opts.bin_by_length
    /\ Len(rec.alt) >= 2
    /\ HasField(rec.genotypes, "PL")

\* new_rec, yielded for the cut `cut` of record, has the bins of that cut
CutOK ==
    LET n == Len(record.alt)
        maxlen == Field(new_rec.info, "REFBIN_MAXLEN").val
        minlen == Field(new_rec.info, "ALTBIN_MINLEN").val
    IN  /\ cut \in ExpectedCuts(record)
        /\ Field(new_rec.info, "REFBIN_INDEXES").val
               = [k \in 1..(cut + 1) |-> SortedPos(record, k - 1)]
        /\ Field(new_rec.info, "ALTBIN_INDEXES").val
               = [k \in 1..(n - cut) |-> SortedPos(record, cut + k)]
        /\ REFBIN # {} /\ ALTBIN # {}
        /\ REFBIN \cap ALTBIN = {}
        /\ REFBIN \cup ALTBIN = 0..n
        /\ \A x \in REFBIN : AlleleLen(record, x) <= maxlen
        /\ \A y \in ALTBIN : AlleleLen(record, y) >= minlen
        /\ maxlen <= minlen
        /\ ~opts.same_length_splits => maxlen < minlen
        /\ \A x \in REFBIN : \A y \in ALTBIN : AlleleLen(record, x) <= AlleleLen(record, y)

\* the cuts of the records written for input no, in the order of writing
RECURSIVE CutsWritten(_, _)
CutsWritten(w, no) ==
    IF w = <<>> THEN <<>>
    ELSE (IF w[1][1] = no /\ w[1][2] = "cut" THEN <<w[1][3]>> ELSE <<>>)
             \o CutsWritten(Tail(w), no)

\* bin_by_length_fn ends its loop on record in this step
BinFinishes ==
    /\ pc \in {"bin", "bin_write"}
    /\ pc' = "bin_pull"
    /\ IsBinned(record)

\* C16: a record the binner yields for cut i of a record with three or more
\* alleles has as REFBIN_INDEXES the alleles at the positions 0..i of the
\* order by (length, index) and as ALTBIN_INDEXES the others, bins that are
\* disjoint, non-empty and cover 0..n_alts, REFBIN_MAXLEN <= ALTBIN_MINLEN
\* (< without same-length-splits) and no REFBIN allele longer than an ALTBIN
\* allele; when the binner has gone through the record, the cuts it wrote are
\* exactly those at which the lengths differ, or all with same-length-splits:
\* distinct lengths - 1 records, or n_alts
C16_Cuts ==
    [][/\ (pc' = "bin_write" /\ part' = "cut") => CutOK'
       /\ BinFinishes =>
              LET W == CutsWritten(written', record_no)
              IN  /\ Range(W) = ExpectedCuts(record)
                  /\ Len(W) = Cardinality(ExpectedCuts(record))
                  /\ Len(W) = IF opts.same_length_splits THEN Len(record.alt)
                              ELSE DistinctLengths(record) - 1]_vars

\* REF A with ALT T,G,ATG without same-length-splits: the cuts 0 and 1 are
\* skipped and the record of cut 2 is yielded
C16_Witness ==
    /\ BinYielded
    /\ ~opts.same_length_splits
    /\ Len(record.alt) = 3 /\ DistinctLengths(record) = 2
    /\ cut = 2
    /\ CutsWritten(written, record_no) = <<>>

\* the binner runs, without same-length-splits, on REF A with ALT T,G,ATG
Example17 ==
    /\ IsBinned(record)
    /\ ~opts.same_length_splits
    /\ record.ref = "A"
    /\ record.alt = <<"T", "G", "ATG">>

\* the first record for the example has the bins ref and alt, and n records
\* are written for it
Example17Bins(ref, alt, n) ==
    /\ (Example17 /\ pc' = "bin_write" /\ part' = "cut"
            /\ CutsWritten(written, record_no) = <<>>)
           => (REFBIN' = ref /\ ALTBIN' = alt)
    /\ (Example17 /\ BinFinishes) => Len(CutsWritten(written', record_no)) = n

\* C17: binning REF A with ALT T,G,ATG without same-length-splits skips the
\* cuts 0 and 1 between alleles of length 1 and emits one record, for cut 2,
\* with REFBIN = {0, 1, 2} and ALTBIN = {3}
C17_OneRecord == [][Example17Bins({0, 1, 2}, {3}, 1)]_vars

\* the record of the example was yielded
C17_Witness ==
    /\ pc = "bin_write" /\ part = "cut"
    /\ record.ref = "A" /\ record.alt = <<"T", "G", "ATG">>
    /\ ~opts.same_length_splits
    /\ Field(record.genotypes, "PL").tag = "concat_int32"
    /\ REFBIN = {0, 1, 2} /\ ALTBIN = {3}

\* C17 as stated: two records, the first with REFBIN = {0, 1} and
\* ALTBIN = {2, 3}
C17_TwoRecords == [][Example17Bins({0, 1}, {2, 3}, 2)]_vars
(* ---------------- properties: the order of the output ------------------- *)
\* the run is one of binalleles
IsBinRun == "bin_by_length" \in DOMAIN opts

\* the parts written for input no, in the order of writing
PartsWritten(no) ==
    LET of_no == SelectSeq(written, LAMBDA e : e[1] = no)
    IN  [k \in 1..Len(of_no) |-> of_no[k][2]]

AllShort(rec) == \A i \in 1..Len(rec.alt) : Len(rec.alt[i]) <= opts.split_by_length

AllLong(rec) == \A i \in 1..Len(rec.alt) : Len(rec.alt[i]) > opts.split_by_length

\* the writer has the records of the inputs in the order of the inputs, and
\* none of an input not yet read
InputOrder ==
    /\ \A j, k \in 1..Len(written) : j < k => written[j][1] <= written[k][1]
    /\ \A k \in 1..Len(written) : written[k][1] \in 0..record_no

\* allele: an input is written whole, or as its short copy and then its long
\* copy; the copy in the projector or at the writer is the short one while
\* the long one waits in split_fn, and the long one after the short one was
\* written; nothing waits when the next input is read
SplitOrder ==
    /\ \A no \in 0..record_no :
           PartsWritten(no) \in {<<>>, <<"whole">>, <<"split1">>, <<"split1", "split2">>}
    /\ (pc \in {"localise", "write"} /\ part = "whole") =>
           (pending = <<>> /\ PartsWritten(record_no) = <<>>)
    /\ (pc \in {"localise", "write"} /\ part = "split1") =>
           /\ AllShort(record)
           /\ Len(pending) = 1 /\ AllLong(pending[1])
           /\ PartsWritten(record_no) = <<>>
    /\ (pc \in {"localise", "write"} /\ part = "split2") =>
           /\ AllLong(record)
           /\ pending = <<>>
           /\ PartsWritten(record_no) = <<"split1">>
    /\ pc = "pull" =>
           /\ pending = <<>>
           /\ written # <<>> => written[Len(written)][2] \in {"whole", "split2"}

\* binalleles: an input is written whole, or as records of cuts; the cuts
\* written before the one at the writer are the cuts below it at which a
\* record is due, in increasing order
CutOrder ==
    /\ \A no \in 0..record_no :
           \/ PartsWritten(no) \in {<<>>, <<"whole">>}
           \/ /\ Range(PartsWritten(no)) = {"cut"}
              /\ \A j, k \in 1..Len(CutsWritten(written, no)) :
                     j < k => CutsWritten(written, no)[j] < CutsWritten(written, no)[k]
    /\ (pc = "bin_write" /\ part = "whole") => PartsWritten(record_no) = <<>>
    /\ (pc = "bin_write" /\ part = "cut") =>
           /\ Range(PartsWritten(record_no)) \subseteq {"cut"}
           /\ Range(CutsWritten(written, record_no))
                  = {c \in ExpectedCuts(record) : c < cut}
           /\ cut \in ExpectedCuts(record)

\* C18: the records of an earlier input are written before those of a later
\* one; of a split input the short copy goes through the projector and to the
\* writer before the long copy; the binner's records of one input are written
\* by increasing cut; no yielded record is written twice or left out
C18_OutputOrder ==
    /\ InputOrder
    /\ IF IsBinRun THEN CutOrder ELSE SplitOrder

\* the long copy of the second input is at the writer, after the short one
C18_Witness ==
    /\ ~IsBinRun
    /\ pc = "write" /\ part = "split2"
    /\ record_no = 1
    /\ Len(written) >= 2
(* ---------------- properties: the index of the input record ------------- *)
\* a record is read in this step
ReadsRecord ==
    /\ pc \in {"pull", "bin_pull"}
    /\ record' # NoRecord

\* what a step does with the index: it goes up by one when a record is read,
\* and only then, which is when nothing of the input before is left in a
\* stage; a record is written under the index of the input in the pipeline
IndexStep ==
    /\ ReadsRecord => record_no' = record_no + 1
    /\ record_no' # record_no =>
           /\ ReadsRecord
           /\ record = NoRecord /\ pending = <<>>
    /\ written' # written =>
           /\ Len(written') = Len(written) + 1
           /\ SubSeq(written', 1, Len(written)) = written
           /\ written'[Len(written')][1] = record_no
           /\ record_no' = record_no

\* an error is raised in this step
Raises == err = NoError /\ err' # NoError

\* an error raised in this step for the input in the pipeline names, if it
\* names an index, the index of that input
ErrorIndex == Raises => (record_no' = record_no /\ (err'.no # -1 => err'.no = record_no))

RecordIndexStarts == record_no = -1 /\ written = <<>> /\ record = NoRecord

\* C19: the index starts before the first record and goes up by exactly one
\* with every record read, dropped ones included, so that it is the 0-based
\* position in the input; every record written for input k, each split copy
\* and each binned record, and every error raised for it carry k, and the
\* index stays k until nothing of input k is left in the pipeline
C19_RecordIndex == RecordIndexStarts /\ [][IndexStep /\ ErrorIndex]_vars

\* the same but for the error of update_infos about the size of a vector
C19_RecordIndexButInfoSize ==
    /\ RecordIndexStarts
    /\ [][IndexStep /\ (err'.kind # "FieldLengthMismatch" => ErrorIndex)]_vars

\* the first input was dropped as rare and the second one, split, is written
\* under the index 1
C19_SecondInputSplit ==
    /\ ~IsBinRun
    /\ record_no = 1
    /\ PartsWritten(0) = <<>>
    /\ PartsWritten(1) = <<"split1">>
    /\ pc = "write" /\ part = "split2"
(* ---------------- properties: errors end the run ------------------------ *)
\* main has returned a nonzero code after one line on stderr, the line of e
EndedWith(p, e) ==
    /\ p.returned
    /\ p.rc # 0
    /\ p.stderr = <<[prefix |-> "[deCoVar error]", what |-> e]>>

\* a step that raises an error writes nothing and ends the program with the
\* diagnostic of that error; after an error there is no other step
FatalStep ==
    /\ pc # "error" /\ err = NoError /\ ~proc.returned
    /\ Raises =>
           /\ pc' = "error"
           /\ written' = written
           /\ record_no' = record_no
           /\ proc.stderr = <<>>
           /\ EndedWith(proc', err')
    /\ (pc' = "error" \/ proc'.rc # 0 \/ proc'.stderr # <<>>) => Raises

\* C20: an error raised for a record ends the run: the record is not written,
\* nothing is read, transformed or written after it, what was written stays
\* written, and main returns a nonzero code after one line of diagnostic; no
\* record is skipped with the run going on
C20_Fatal == [][FatalStep]_vars

\* the second input raised an error after the first one was written
C20_Witness ==
    /\ pc = "error"
    /\ record_no = 1
    /\ written # <<>>
    /\ EndedWith(proc, err)
    /\ err # NoError
(* ---------------- properties: the index in the diagnostics -------------- *)
\* C21: every error of the core, in the allele pipeline and in the binner,
\* carries as record number of its diagnostic the index of the input record
\* that triggered it
C21_ErrorCarriesIndex == err # NoError => err.no = record_no

\* the errors whose diagnostic does not show the index as record number: the
\* size error of update_infos and the binner's error about the type of PL
IndexLost ==
    \/ err.kind = "FieldLengthMismatch"
    \/ IsBinRun /\ err.kind = "PLTypeMismatch"

\* the same for all other errors
C21_OtherErrorsCarryIndex == (err # NoError /\ ~IndexLost) => err.no = record_no

\* the binner has raised its error about the type of PL
C21_BinnerTypeError == IsBinRun /\ pc = "error" /\ err.kind = "PLTypeMismatch"

\* an error other than those two was raised for the second input
C21_OtherErrorRaised == pc = "error" /\ ~IndexLost /\ record_no = 1
(* ---------------- properties: the binner and PL ------------------------- *)
\* the step is bin_by_length_fn's start on a record with two or more ALT
\* alleles, with bin-by-length on
BinStartsOnMulti ==
    /\ IsBinRun /\ opts.bin_by_length
    /\ pc = "bin"
    /\ Len(record.alt) >= 2

PLIsInteger(rec) == Field(rec.genotypes, "PL").tag \in IntTags

\* C22: when the binner runs on a record with two or more ALT alleles that has
\* no PL field, MissingPL is raised and nothing is emitted for the input; when
\* PL is there but is not an integer column, PLTypeMismatch is raised
C22_BinnerPLErrors ==
    [][BinStartsOnMulti =>
          /\ ~HasField(record.genotypes, "PL") =>
                 (pc' = "error" /\ err'.kind = "MissingPL" /\ written' = written)
          /\ (HasField(record.genotypes, "PL") /\ ~PLIsInteger(record)) =>
                 (pc' = "error" /\ err'.kind = "PLTypeMismatch")]_vars

\* what the binner does: a record without PL is handed on as it is, without
\* an error; a PL that is not an integer column raises PLTypeMismatch when a
\* cut is due, and ends the binner without a record and without an error
\* when none is
C22_BinnerPLHandling ==
    [][BinStartsOnMulti =>
          /\ ~HasField(record.genotypes, "PL") =>
                 /\ pc' = "bin_write" /\ part' = "whole"
                 /\ err' = NoError /\ record' = record
          /\ (HasField(record.genotypes, "PL") /\ ~PLIsInteger(record)) =>
                 IF ExpectedCuts(record) # {}
                 THEN pc' = "error" /\ err'.kind = "PLTypeMismatch"
                 ELSE pc' = "bin_pull" /\ err' = NoError /\ written' = written]_vars

\* a record with three ALT alleles and no PL is at the writer
C22_NoPLHandedOn ==
    /\ IsBinRun /\ opts.bin_by_length
    /\ pc = "bin_write" /\ part = "whole"
    /\ Len(record.alt) = 3
    /\ ~HasField(record.genotypes, "PL")
(* ---------------- properties: the reverse cache ------------------------- *)
\* every entry of the cache is the pair of its index
ReverseCacheHoldsPairs(cache) ==
    \A b \in 0..MaxAlts : \A a \in 0..b :
        vcf_gt_formula(a, b) + 1 <= Len(cache) =>
            cache[vcf_gt_formula(a, b) + 1] = <<a, b>>

\* the cache has an entry for every genotype of n_alts ALT alleles
ReverseCacheCovers(cache, n_alts) == Len(cache) >= vcf_gt_formula(n_alts, n_alts) + 1

\* the step derives the filter vectors A and G for record: in the filter after
\* R was derived from AF, in the splitter for the two copies
DerivesFilter ==
    \/ /\ pc = "remove"
       /\ Len(record.alt) > 1 /\ opts.rare_af_threshold # 0
       /\ err'.kind \notin {"MissingAF", "AFTypeMismatch", "AFLengthMismatch"}
    \/ /\ pc = "split"
       /\ opts.split_by_length > 0 /\ needs_splitting(record, opts)

\* C23: through any sequence of records the reverse cache never shrinks and
\* keeps what it holds, holds (a, b) at index g(a, b), and after a filter
\* derivation has an entry for every genotype of the record
C23_ReverseCache ==
    [][/\ Len(filter_vectors'.formula_reverse_cache)
              >= Len(filter_vectors.formula_reverse_cache)
       /\ SubSeq(filter_vectors'.formula_reverse_cache, 1,
                 Len(filter_vectors.formula_reverse_cache))
              = filter_vectors.formula_reverse_cache
       /\ ReverseCacheHoldsPairs(filter_vectors'.formula_reverse_cache)
       /\ DerivesFilter =>
              ReverseCacheCovers(filter_vectors'.formula_reverse_cache,
                                 Len(record.alt))]_vars

\* the filter has removed alleles of a record, and fixed its GT, with a cache
\* that an earlier, larger record has left
C23_Witness ==
    /\ ~IsBinRun
    /\ pc = "split" /\ record_no = 1
    /\ Len(record.alt) < Len(rin.alt)
    /\ Len(filter_vectors.formula_reverse_cache)
           > vcf_gt_formula(Len(rin.alt), Len(rin.alt)) + 1
(* ---------------- properties: the errors of the projection -------------- *)
\* the step is the projection of a record with more ALT alleles than L
ProjectionRuns ==
    /\ pc = "localise"
    /\ opts.local_alleles # 0
    /\ Len(record.alt) > opts.local_alleles

IsIntegerColumn(col) == col.tag = "concat_int"

\* the errors the record calls for; ragged tells whether a PL row of another
\* length than g(n_alts, n_alts) + 1 counts, or only the number of all values
ProjectionErrors(rec, ragged) ==
         {"FieldAlreadyPresent" : k \in {j \in 1..Len(rec.genotypes) :
                                             rec.genotypes[j].id \in LocalIds}}
    \cup (IF ~HasField(rec.genotypes, "PL") THEN {"MissingPL"}
          ELSE IF ~IsIntegerColumn(Field(rec.genotypes, "PL")) THEN {"PLTypeMismatch"}
          ELSE IF \/ Len(Field(rec.genotypes, "PL").data)
                         # hdr.n_samples * expected("G", Len(rec.alt))
                  \/ ragged /\ ~RegularPL(rec)
               THEN {"DiploidOrCardinalityMismatch"}
          ELSE {})
    \cup (IF HasField(rec.genotypes, "AD") /\ ~IsIntegerColumn(Field(rec.genotypes, "AD"))
          THEN {"ADTypeMismatch"} ELSE {})

\* the projection of a record that calls for an error raises one of them and
\* leaves the record as it was
ProjectionFails(ragged) ==
    (ProjectionRuns /\ ProjectionErrors(record, ragged) # {}) =>
        /\ pc' = "error"
        /\ err'.kind \in ProjectionErrors(record, ragged)
        /\ record' = record

\* C24: the projection of a record with more ALT alleles than L fails with
\* FieldAlreadyPresent if LAA, LAD, LGT or LPL is a FORMAT field of the
\* record, with MissingPL without PL, with PLTypeMismatch if PL is not an
\* integer column, with DiploidOrCardinalityMismatch if a sample's PL row has
\* not g(n_alts, n_alts) + 1 values, with ADTypeMismatch if AD is not an
\* integer column; the record is then as it was
C24_ProjectionErrors == [][ProjectionFails(TRUE)]_vars

\* the same with DiploidOrCardinalityMismatch for a PL column that has not
\* n_samples * (g(n_alts, n_alts) + 1) values in all
C24_ProjectionErrorsFlat == [][ProjectionFails(FALSE)]_vars

\* the projection was stopped by the error about AD
C24_ADTypeRaised == pc = "error" /\ err.kind = "ADTypeMismatch"

\* the projection was stopped by the error about a field that is present
C24_PresentRaised == pc = "error" /\ err.kind = "FieldAlreadyPresent"
(* ---------------- properties: the errors of the rare-allele filter ------ *)
\* the step is the filter's work on a record with two or more ALT alleles
FilterRuns ==
    /\ pc = "remove"
    /\ opts.rare_af_threshold # 0
    /\ Len(record.alt) > 1

\* AF of rec is a vector of floats with a value for every ALT allele
SoundAF(rec) ==
    /\ HasField(rec.info, "AF")
    /\ Field(rec.info, "AF").tag = "vec_float"
    /\ Len(Field(rec.info, "AF").val) = Len(rec.alt)

\* some ALT alleles of rec are rare, not all: the filter rewrites the record
SomeRare(rec) ==
    LET R == rare_R(Field(rec.info, "AF").val, Len(rec.alt), opts.rare_af_threshold)
    IN  /\ \E a \in 2..(Len(rec.alt) + 1) : R[a] = 1
        /\ \E a \in 2..(Len(rec.alt) + 1) : R[a] = 0

\* an INFO vector of rec declared A or R has not the length of its number
UnsoundInfo(rec) ==
    \E k \in 1..Len(rec.info) :
        /\ hdr.infos[rec.info[k].id] \in {"A", "R"}
        /\ IsVector(rec.info[k].tag)
        /\ Len(rec.info[k].val) # expected(hdr.infos[rec.info[k].id], Len(rec.alt))

\* a FORMAT column of rec declared A, R or G has not the expected number of
\* values: in a sample's row if rows, in all otherwise
UnsoundFormat(rec, rows) ==
    \E c \in 1..Len(rec.genotypes) :
        /\ hdr.formats[rec.genotypes[c].id] \in {"A", "R", "G"}
        /\ IsConcat(rec.genotypes[c].tag)
        /\ LET e == expected(hdr.formats[rec.genotypes[c].id], Len(rec.alt))
               n == Len(rec.genotypes[c].delim) - 1
           IN  \/ Len(rec.genotypes[c].data) # n * e
               \/ rows /\ \E s \in 1..n : Len(Inner(rec.genotypes[c], s)) # e

\* the filter stops with the error that the defect of the record calls for
FilterFails(rows) ==
    FilterRuns =>
        /\ ~HasField(record.info, "AF") =>
               (pc' = "error" /\ err'.kind = "MissingAF" /\ record' = record)
        /\ (HasField(record.info, "AF") /\ Field(record.info, "AF").tag # "vec_float") =>
               (pc' = "error" /\ err'.kind = "AFTypeMismatch" /\ record' = record)
        /\ (HasField(record.info, "AF") /\ Field(record.info, "AF").tag = "vec_float"
                /\ Len(Field(record.info, "AF").val) # Len(record.alt)) =>
               (pc' = "error" /\ err'.kind = "AFLengthMismatch" /\ record' = record)
        /\ (SoundAF(record) /\ SomeRare(record) /\ UnsoundInfo(record)) =>
               (pc' = "error" /\ err'.kind = "FieldLengthMismatch")
        /\ (SoundAF(record) /\ SomeRare(record) /\ ~UnsoundInfo(record)
                /\ UnsoundFormat(record, rows)) =>
               (pc' = "error" /\ err'.kind = "DiploidOrCardinalityMismatch")

\* C25: the filter raises MissingAF without AF, AFTypeMismatch if AF is not a
\* vector of floats, AFLengthMismatch if AF has not n_alts values, each before
\* it changes the record; FieldLengthMismatch if an INFO vector declared A or
\* R has not the length of its filter vector; DiploidOrCardinalityMismatch if
\* a FORMAT column declared A, R or G has not the expected number of values
\* for every sample; the record is then not emitted
C25_FilterErrors == [][FilterFails(TRUE)]_vars

\* the same with DiploidOrCardinalityMismatch for a column that has not
\* n_samples times the expected number of values in all
C25_FilterErrorsFlat == [][FilterFails(FALSE)]_vars

\* the filter was stopped by the error about a FORMAT column
C25_FormatRaised ==
    /\ pc = "error" /\ err.kind = "DiploidOrCardinalityMismatch"
    /\ lin = NoRecord /\ sin = NoRecord
(* ---------------- properties: what the projection leaves alone ---------- *)
\* the ids of a sequence of fields
Ids(entries) == [k \in 1..Len(entries) |-> entries[k].id]

\* the FORMAT fields of rec that the projection keeps
KeptFormats(rec) ==
    IF opts.keep_global_fields THEN rec.genotypes
    ELSE SelectSeq(rec.genotypes, LAMBDA e : e.id \notin {"AD", "PL"})

\* the ids of the fields the projection of rec adds
AddedIds(rec) ==
    (IF HasField(rec.genotypes, "AD") THEN <<"LAD">> ELSE <<>>) \o <<"LPL", "LAA">>

\* the step is the projector's on a record it hands on as it is
ProjectorPasses ==
    /\ pc = "localise"
    /\ ~opts.transform_all
    /\ opts.local_alleles = 0 \/ Len(record.alt) <= opts.local_alleles

MissingIds == {"", "."}

\* C27: the id of a record the binner yields for cut i of an input comes from
\* that input alone: x_div_i for an input with the id x, the missing id for
\* an input without one
C27_BinnedId ==
    BinYielded =>
        IF record.id # "."
        THEN new_rec.id = record.id \o "_div_" \o ToString(cut)
        ELSE new_rec.id \in MissingIds

\* the same for the inputs that have an id, and for those without one as long
\* as no input with an id was binned
C27_BinnedIdOfNamed ==
    BinYielded =>
        IF record.id # "."
        THEN new_rec.id = record.id \o "_div_" \o ToString(cut)
        ELSE \/ new_rec.id \in MissingIds
             \/ \E k \in 1..Len(written) : written[k][1] < record_no /\ written[k][2] = "cut"

\* the second input, which has an id, was binned
C27_SecondNamed ==
    /\ BinYielded /\ record_no = 1
    /\ record.id # "."
    /\ new_rec.id = record.id \o "_div_" \o ToString(cut)
(* ---------------- properties: nothing is carried between records -------- *)
\* the filter vectors of a run that has seen no record
FreshFilterVectors ==
    [A |-> <<>>, R |-> <<>>, G |-> <<>>, formula_reverse_cache |-> <<>>]

\* the filter makes of record what it makes of it with fresh filter vectors
FilterForgets ==
    LET here == remove_rare_alleles_fn(record, record_no, hdr, opts, filter_vectors)
        fresh == remove_rare_alleles_fn(record, record_no, hdr, opts, FreshFilterVectors)
    IN  /\ here.err = fresh.err
        /\ here.skip = fresh.skip
        /\ here.record = fresh.record

\* the splitter makes of record what it makes of it with fresh filter vectors
SplitterForgets ==
    LET here == split_fn(record, record_no, hdr, opts, filter_vectors)
        fresh == split_fn(record, record_no, hdr, opts, FreshFilterVectors)
    IN  here.err = fresh.err /\ here.out = fresh.out

\* what the projector makes of record does not depend on what the memory
\* outside the rows of AD and PL holds
ProjectorForgets ==
    \A laa \in localise_laa(record, hdr, opts) :
        \A g1, g2 \in Garbage :
            LET one == localise_fn(record, record_no, hdr, opts, laa, g1)
                other == localise_fn(record, record_no, hdr, opts, laa, g2)
            IN  one.err = other.err /\ one.record = other.record

\* the stage that is about to run makes of record what it makes of it in a
\* run that has seen no other record
NothingCarried(projector) ==
    /\ pc = "remove" => FilterForgets
    /\ pc = "split" => SplitterForgets
    /\ (pc = "localise" /\ projector) => ProjectorForgets

\* C28: what filter, splitter and projector emit for a record does not depend
\* on the records before it: filter vectors, accumulator, LAA column and
\* scratch columns are initialised or overwritten before they are read
C28_NoCarryOver == NothingCarried(TRUE)

\* the same, for the projector on records whose AD and PL rows are complete
C28_NoCarryOverRegular == NothingCarried(RegularPL(record) /\ RegularAD(record))

\* the filter is about to run on a second record, smaller than the first, with
\* the filter vectors of the first
C28_SecondAfterLarger ==
    /\ pc = "remove" /\ record_no = 1
    /\ opts.rare_af_threshold # 0
    /\ Len(record.alt) > 1
    /\ Len(filter_vectors.G) > expected("G", Len(record.alt))
(* ---------------- properties: the binner's records and the header ------- *)
\* the record at the writer of binalleles
AtBinWriter == IF part = "cut" THEN new_rec ELSE record

\* the INFO and FORMAT keys of rec are declared in the header of the writer
KeysDeclared(rec) ==
    /\ \A k \in 1..Len(rec.info) : rec.info[k].id \in DOMAIN hdr.infos
    /\ \A k \in 1..Len(rec.genotypes) : rec.genotypes[k].id \in DOMAIN hdr.formats

\* the header of a run with bin-by-length declares the four INFO fields of
\* the bins and the FORMAT fields GT and PL, and nothing else
BinHeaderDeclares ==
    /\ DOMAIN hdr.infos = {"REFBIN_INDEXES", "REFBIN_MAXLEN",
                           "ALTBIN_INDEXES", "ALTBIN_MINLEN"}
    /\ DOMAIN hdr.formats = {"GT", "PL"}

\* C29: with bin-by-length every record written by binalleles, a binned one
\* or one handed on for n_alts <= 1 or for lack of PL, has only INFO and
\* FORMAT keys that the output header declares: the four of the bins, GT, PL
C29_KeysInHeader ==
    (IsBinRun /\ opts.bin_by_length) =>
        /\ BinHeaderDeclares
        /\ pc = "bin_write" => KeysDeclared(AtBinWriter)

\* the same for the binned records
C29_BinnedKeysInHeader ==
    (IsBinRun /\ opts.bin_by_length) =>
        /\ BinHeaderDeclares
        /\ BinYielded => KeysDeclared(new_rec)

\* a binned record with its six keys is at the writer
C29_BinnedAtWriter ==
    /\ IsBinRun /\ opts.bin_by_length /\ BinYielded
    /\ Len(new_rec.info) = 4 /\ Len(new_rec.genotypes) = 2
(* ---------------- properties: the cardinality of the binned PL ---------- *)
\* the column has n_samples rows of width values each
RowsOfWidth(col, width) ==
    /\ Len(col.data) = hdr.n_samples * width
    /\ Len(col.delim) = hdr.n_samples + 1
    /\ \A i \in 0..hdr.n_samples : col.delim[i + 1] = i * width

\* C30: the PL column (declared G) of every binned record has
\* n_samples * (g(n_alts, n_alts) + 1) values and the delimiters
\* i * (g(n_alts, n_alts) + 1), n_alts being the number of entries of the
\* record's alt list
C30_BinnedCardinality ==
    BinYielded =>
        RowsOfWidth(Field(new_rec.genotypes, "PL"), expected("G", Len(new_rec.alt)))

\* what holds of the column once it has its rows: three values per sample,
\* the number for one ALT allele, beside an alt list of two entries
C30_BinnedThreePerSample ==
    (BinYielded /\ Field(new_rec.genotypes, "PL").delim # <<0>>) =>
        /\ RowsOfWidth(Field(new_rec.genotypes, "PL"), expected("G", 1))
        /\ Len(new_rec.alt) = 2

\* a binned record with a PL column that has its rows is at the writer
C30_BinnedWithRows ==
    /\ BinYielded
    /\ Field(new_rec.genotypes, "PL").delim # <<0>>
    /\ Len(Field(new_rec.genotypes, "PL").data) = 3 * hdr.n_samples
====
